---- MODULE Spec2Model ----
(***************************************************************************)
(* hashgoblin: the concurrent hashing engine (src/exec/mod.rs, hashing.rs) *)
(* and the streaming audit comparator (src/exec/checker.rs).               *)
(*                                                                         *)
(* The specifications share the cancel flag and the file system:           *)
(*   SpecAudit  - Checker::check fed by the workers' channel senders       *)
(*   SpecEngine - the workers of run() over the shared path Queue          *)
(*   SpecEngineFair - SpecEngine with every worker scheduled fairly        *)
(*   SpecLib    - create_hashes of src/lib.rs and its hashing threads      *)
(*   SpecPool   - audit of src/lib.rs and its checking threads             *)
(*   SpecRec    - a HashData written as a line and parsed back             *)
(*   SpecOut    - OutFile: header, data lines, finish                      *)
(*   SpecHdr    - load_check_file on the three header lines                *)
(*   SpecWalk   - Queue::new, then the workers of run()                    *)
(*   SpecAuditFair - SpecAudit with its steps scheduled fairly             *)
(*   SpecTok    - HashType::from_str and as_str                            *)
(*   SpecCmp    - compare_paths on paths of any depth                      *)
(*   SpecRd     - Checker::read_next on the data lines                     *)
(*   SpecAp     - workers appending lines through the GuardedWriter        *)
(*   SpecAuditWide - SpecAudit on file systems with three live records     *)
(*   SpecST     - the STReader handles of the workers (exec/streader.rs)   *)
(*   SpecMT     - the MTReader handles of the workers (exec/mtreader.rs)   *)
(*   SpecDrv    - path_on_fast_drive, the drive classifier (path.rs)       *)
(***************************************************************************)
EXTENDS Naturals, Sequences, FiniteSets, TLC

(***************************************************************************)
(* Bounds of the model                                                     *)
(***************************************************************************)
\* most data lines a manifest holds
MaxLines == 2
\* worker threads calling run()
NumWorkers == 2
\* most configured hash algorithms
MaxAlgos == 2
\* most seed paths given on the command line
MaxSeeds == 2

\* the largest max_threads a create run of lib.rs is started with
MaxThreads == 3
\* most characters in the path of a record written as a line
MaxPathLen == 3
\* the most paths the drive classifier is given
MaxPaths == 3
\* the depth of the deepest path compare_paths is given
MaxDepth == 3

(***************************************************************************)
(* Paths and the file system                                               *)
(***************************************************************************)
\* A path is the sequence of its components.
P_a == <<"a">>
P_d == <<"d">>
P_df == <<"d", "f">>
P_dg == <<"d", "g">>

PathU == {P_a, P_d, P_df, P_dg}

\* Path::ancestors().nth(1): the immediate parent; None for the empty path.
HasParent(p) == Len(p) > 0

Parent(p) == SubSeq(p, 1, Len(p) - 1)

\* A file system gives every path its kind; a path exists only inside a directory.
FileSystems ==
    {f \in [PathU -> {"none", "file", "dir"}] :
        /\ f[P_a] \in {"none", "file"}
        /\ f[P_df] \in {"none", "file"}
        /\ f[P_dg] \in {"none", "file"}
        /\ \A p \in PathU : (f[p] # "none" /\ Len(p) > 1) => f[Parent(p)] = "dir"}

\* Path::is_dir: asks the live file system; false for a path that does not exist.
is_dir(f, p) == p \in DOMAIN f /\ f[p] = "dir"

\* read_dir: the entries of a directory, in the order the file system lists them.
Entries(f, d) ==
    (IF f[P_df] # "none" /\ d = P_d THEN <<P_df>> ELSE <<>>)
        \o (IF f[P_dg] # "none" /\ d = P_d THEN <<P_dg>> ELSE <<>>)

\* Option<String>: None is the empty sequence, Some(s) the list of digests in s.
None == <<>>

HashData(p, h) == [path |-> p, hash |-> h]

\* The content of every live file, and the digest list the manifest may hold.
LiveHash == <<"h1">>

ManifestHashes == {None, <<"h1">>, <<"h2">>}

\* The records an uncancelled scan of the whole tree hands to the sink.
LiveRecords(f, ed) ==
    {HashData(p, LiveHash) : p \in {q \in PathU : f[q] = "file"}}
        \cup (IF ed
              THEN {HashData(p, None) :
                        p \in {q \in PathU : f[q] = "dir" /\ Entries(f, q) = <<>>}}
              ELSE {})

\* Sequences over S of length at most n.
BoundedSeq(S, n) == UNION {[1..k -> S] : k \in 0..n}

Range(s) == {s[i] : i \in 1..Len(s)}

VARIABLES
    CANCEL,       \* static CANCEL: AtomicBool
    fs,           \* the file system the run sees
    empty_dirs,   \* the --empty-dirs option
    \* ---- audit comparator (Checker) ----
    early,        \* Checker.early
    manifest,     \* the data lines of the hashes file
    reader,       \* Checker.reader: the lines not yet read
    source,       \* Checker.source: records in the channel
    backlog,      \* Checker.backlog
    audit_err,    \* Checker.audit_err
    cur,          \* the live record search() is handling
    scanLeft,     \* iterations left in search_backlog's for loop
    cpc,          \* where the comparator is
    result,       \* what Checker::check returned
    findings,     \* the audit errors printed so far
    delivered,    \* the live records received so far
    unsent,       \* records the workers have still to send
    chanOpen,     \* some worker still holds a Sender
    workerErr,    \* a worker returned an error
    consumed,     \* the manifest records a comparison with a live record consumed
    scan0,        \* the backlog when search_backlog was last entered
    \* ---- work engine (run, Queue) ----
    hashes,       \* the configured algorithms, in order
    seeds,        \* the input paths Queue::new was given
    queue,        \* Queue: the shared FIFO of paths
    qlock,        \* the worker holding the queue mutex, 0 when free
    wpc,          \* where each worker is in run()
    whd,          \* each worker's path and hash_data
    walgo,        \* index in hashes of the algorithm being computed
    wchunk,       \* chunks hash_file has consumed
    wdir,         \* entries push_dir has still to visit
    wempty,       \* push_dir's is_empty
    wsaw,         \* the flag was set at a cancel check of the current file
    sink,         \* the records handed to the handler, in order
    lateRecord,   \* a file's record was handed while the flag was set
    seenRecord,   \* a file's record was handed though a check saw the flag
    abandoned,    \* the files hash_file gave up with Hashed::Canceled
    pushed,       \* how often each path was put on the queue
    popped,       \* how often each path was taken from the queue
    \* ---- lib.rs: create_hashes ----
    lib_queue,    \* Queue of lib.rs
    lib_lock,     \* the thread holding the queue mutex, 0 when free
    lib_cancel,   \* create_hashes' local cancel: AtomicBool
    max_threads,  \* the max_threads argument
    handles,      \* handles.len(): the threads spawned so far
    tpc,          \* where each thread is; thread 1 is the calling thread
    tpath,        \* the path each thread holds
    tdir,         \* entries push_dir has still to visit
    output,       \* the output file exists
    written,      \* the data lines written to the output file
    ret,          \* what create_hashes returned
    failed,       \* the threads whose hashing failed
    \* ---- lib.rs: audit and its check() threads ----
    pa_lines,     \* lines: the data lines of the hashes file not yet read
    pa_cancel,    \* audit's local cancel: AtomicBool
    pa_early,     \* the early argument
    pa_threads,   \* the max_threads argument
    kpc,          \* where each check() thread is
    kline,        \* the line each check() thread holds
    audit_failed, \* check()'s audit_failed of each thread
    pa_ret,       \* what audit returned
    printed_ok,   \* audit printed ok
    \* ---- exec/mod.rs: a record written as a line and read back ----
    rec_in,       \* the HashData the writer is handed
    rec_line,     \* the line Display writes for it
    rec_parsed,   \* what try_from_string makes of the line
    rec_line2,    \* the line Display writes for the parsed record
    rpc,          \* how far the round trip is
    \* ---- exec/outfile.rs: OutFile ----
    file,         \* the bytes of the output file on disk
    buf,          \* the bytes in the BufWriter, not yet written to the file
    opc,          \* the state of the OutFile
    run_state,    \* the hashing run: running, ok or err
    pad,          \* the byte range OutFile::new reserved for the finish time
    patch,        \* the byte range OutFile::finish wrote
    before,       \* the file when finish patched it, before the patch
    handed,       \* the records handed to the writer, in order
    \* ---- exec/checker.rs: load_check_file ----
    hdr_in,       \* the parts the first lines of the hashes file are made of
    hdr_lines,    \* the first lines of the hashes file
    hdr_read_err, \* the line whose read fails, 0 when none does
    hdr_result,   \* what load_check_file returned
    hpc,          \* load_check_file has run
    \* ---- exec/mod.rs: Queue::new ----
    recursive,    \* the recursive argument
    qnew,         \* what Queue::new returned
    \* ---- hashing.rs: HashType::from_str and as_str ----
    tok_in,       \* the text given to from_str
    tok_res,      \* what from_str returned
    tok_back,     \* as_str of the parsed algorithm
    tok_pc,       \* how far the round trip is
    \* ---- exec/checker.rs: compare_paths ----
    cmp_fs,       \* the kind of the two paths on the live file system
    cmp_m,        \* reader_path: the path of the manifest record
    cmp_l,        \* path: the path of the live record
    cmp_res,      \* what compare_paths returned
    cmp_pc,       \* compare_paths has run
    \* ---- exec/checker.rs: read_next ----
    rd_reader,    \* Checker.reader: the lines not yet read
    rd_fail,      \* how many reads succeed before one fails, 0 when none fails
    rd_count,     \* the reads done so far
    rd_line,      \* the line the last read_next read
    rd_next,      \* what the last read_next returned
    \* ---- exec/outfile.rs: workers appending through the GuardedWriter ----
    ap_lock,      \* the worker holding the Mutex, 0 when free
    ap_rec,       \* the record each worker's handle() was given
    ap_left,      \* the bytes of its line each worker has still to write
    ap_pc,        \* where each worker is in handle()
    ap_buf,       \* the bytes in the BufWriter
    ap_file,      \* the bytes of the output file
    ap_handed,    \* the records whose handle() returned Ok, in order
    \* ---- exec/streader.rs, exec/mtreader.rs: the reader handles ----
    x_kind,       \* the reader of the run: "st", "mt", or "none"
    x_paths,      \* paths: the FIFO of paths
    x_lock,       \* the handle holding the Mutex of the reader, 0 when free
    x_open,       \* the path of the file each handle has open, <<>> when none
    x_left,       \* the chunks each handle's open file has still to give
    x_pc,         \* where each handle is
    x_events,     \* what the handles did, in order
    \* ---- path.rs: path_on_fast_drive ----
    d_in,         \* paths: the submitted list
    d_dev,        \* what find_volume_name gives for each path: a device or "fail"
    d_rot,        \* what /sys/block/<device>/queue/rotational gives for each device
    d_left,       \* the indexes the loop over the map of paths has still to visit
    d_map,        \* index_map: the group of each device
    d_res,        \* what path_on_fast_drive returned
    d_pc          \* where path_on_fast_drive is

varsShared == <<CANCEL, fs, empty_dirs>>

varsEngine == <<hashes, seeds, queue, qlock, wpc, whd, walgo, wchunk, wdir, wempty,
                wsaw, sink, lateRecord, seenRecord, abandoned, pushed, popped>>

varsAudit == <<early, manifest, reader, source, backlog, audit_err, cur, scanLeft,
               cpc, result, findings, delivered, unsent, chanOpen, workerErr,
               consumed, scan0>>

varsLib == <<lib_queue, lib_lock, lib_cancel, max_threads, handles, tpc, tpath,
             tdir, output, written, ret, failed>>

varsPool == <<pa_lines, pa_cancel, pa_early, pa_threads, kpc, kline, audit_failed,
              pa_ret, printed_ok>>

varsRec == <<rec_in, rec_line, rec_parsed, rec_line2, rpc>>

varsOut == <<file, buf, opc, run_state, pad, patch, before, handed>>

varsHdr == <<hdr_in, hdr_lines, hdr_read_err, hdr_result, hpc>>

\* the variables of the parts that work on text
varsText == <<varsRec, varsOut, varsHdr>>

varsNew == <<recursive, qnew>>

varsTok == <<tok_in, tok_res, tok_back, tok_pc>>

varsCmp == <<cmp_fs, cmp_m, cmp_l, cmp_res, cmp_pc>>

varsRd == <<rd_reader, rd_fail, rd_count, rd_line, rd_next>>

varsAp == <<ap_lock, ap_rec, ap_left, ap_pc, ap_buf, ap_file, ap_handed>>

varsXr == <<x_kind, x_paths, x_lock, x_open, x_left, x_pc, x_events>>

\* the variables of the readers and of the drive classifier
varsDrv == <<d_in, d_dev, d_rot, d_left, d_map, d_res, d_pc>>

varsMore == <<varsXr, varsDrv>>

\* the variables of the parts that stand before or beside a run
varsUnit == <<varsNew, varsTok, varsCmp, varsRd, varsAp, varsMore>>

varsRun == <<varsAudit, varsEngine, varsLib, varsPool, varsText>>

vars == <<varsShared, varsAudit, varsEngine, varsLib, varsPool, varsText, varsUnit>>

\* what the steps of each part leave alone
notAudit == <<varsEngine, varsLib, varsPool, varsText, varsUnit>>

notEngine == <<varsAudit, varsLib, varsPool, varsText, varsUnit>>

notLib == <<CANCEL, empty_dirs, varsAudit, varsEngine, varsPool, varsText, varsUnit>>

notPool == <<CANCEL, empty_dirs, varsAudit, varsEngine, varsLib, varsText, varsUnit>>

notRec == <<CANCEL, fs, varsAudit, varsEngine, varsLib, varsPool, varsOut, varsHdr,
            varsUnit>>

notOut == <<CANCEL, fs, empty_dirs, varsAudit, varsEngine, varsLib, varsPool, varsRec,
            varsHdr, varsUnit>>

notHdr == <<varsShared, varsAudit, varsEngine, varsLib, varsPool, varsRec, varsOut,
            varsUnit>>

notNew == <<varsAudit, varsLib, varsPool, varsText, varsTok, varsCmp, varsRd, varsAp,
            varsMore>>

notTok == <<varsShared, varsRun, varsNew, varsCmp, varsRd, varsAp, varsMore>>

notCmp == <<varsShared, varsRun, varsNew, varsTok, varsRd, varsAp, varsMore>>

notRd == <<CANCEL, fs, varsRun, varsNew, varsTok, varsCmp, varsAp, varsMore>>

notAp == <<varsShared, varsRun, varsNew, varsTok, varsCmp, varsRd, varsMore>>

notXr == <<empty_dirs, varsRun, varsNew, varsTok, varsCmp, varsRd, varsAp, varsDrv>>

notDrv == <<varsShared, varsRun, varsNew, varsTok, varsCmp, varsRd, varsAp, varsXr>>

\* Option<String>: a text is the sequence of its characters
OptNone == [some |-> FALSE, s |-> <<>>]

Some(str) == [some |-> TRUE, s |-> str]

\* the result of try_from_string
ParseResult(kind, p, h) == [kind |-> kind, path |-> p, hash |-> h]

NoParse == ParseResult("none", <<>>, OptNone)

\* no record is being written or read
RecIdle ==
    /\ rec_in = [path |-> <<>>, hash |-> OptNone]
    /\ rec_line = <<>>
    /\ rec_parsed = NoParse
    /\ rec_line2 = <<>>
    /\ rpc = "idle"

\* a byte range of the file: offset of its first byte, and its length
ByteRange(at, len) == [at |-> at, len |-> len]

\* no output file is open
OutIdle ==
    /\ file = <<>>
    /\ buf = <<>>
    /\ opc = "idle"
    /\ run_state = "idle"
    /\ pad = ByteRange(0, 0)
    /\ patch = ByteRange(0, 0)
    /\ before = <<>>
    /\ handed = <<>>

\* the result of load_check_file
LoadResult(kind, hs, warn) == [kind |-> kind, hashes |-> hs, warning |-> warn]

NoLoad == LoadResult("none", <<>>, FALSE)

\* the parts of a header: the lines present, the keywords, the values
HeaderParts(n, kw1, ver, kw2, toks, kw3, t1, sep, kw4, t2) ==
    [n |-> n, kw1 |-> kw1, ver |-> ver, kw2 |-> kw2, toks |-> toks, kw3 |-> kw3,
     t1 |-> t1, sep |-> sep, kw4 |-> kw4, t2 |-> t2]

NoHeader == HeaderParts(0, <<>>, <<>>, <<>>, <<>>, <<>>, <<>>, <<>>, <<>>, <<>>)

\* no hashes file is being loaded
HdrIdle ==
    /\ hdr_in = NoHeader
    /\ hdr_lines = <<>>
    /\ hdr_read_err = 0
    /\ hdr_result = NoLoad
    /\ hpc = "idle"

\* the parts that work on text are idle
TextIdle == RecIdle /\ OutIdle /\ HdrIdle

\* Result<Queue, Error> of Queue::new: the queue, or the path the error names
NewResult(kind, q, p) == [kind |-> kind, queue |-> q, path |-> p]

NoNew == NewResult("none", <<>>, <<>>)

\* a run whose Queue was built with recursive set
NewIdle ==
    /\ recursive = TRUE
    /\ qnew = NoNew

\* Result<HashType, String> of from_str: the algorithm, or the message with
\* the text it names and the tokens it lists
ParsedType(ok, type, invalid, options) ==
    [ok |-> ok, type |-> type, msg |-> [invalid |-> invalid, options |-> options]]

NoType == ParsedType(FALSE, "", <<>>, {})

TokIdle ==
    /\ tok_in = <<>>
    /\ tok_res = NoType
    /\ tok_back = <<>>
    /\ tok_pc = "done"

CmpIdle ==
    /\ cmp_fs = <<>>
    /\ cmp_m = <<>>
    /\ cmp_l = <<>>
    /\ cmp_res = "none"
    /\ cmp_pc = "done"

RdIdle ==
    /\ rd_reader = <<>>
    /\ rd_fail = 0
    /\ rd_count = 0
    /\ rd_line = <<>>
    /\ rd_next = NoParse

ApIdle ==
    /\ ap_lock = 0
    /\ ap_rec = <<>>
    /\ ap_left = <<>>
    /\ ap_pc = <<>>
    /\ ap_buf = <<>>
    /\ ap_file = <<>>
    /\ ap_handed = <<>>

\* no reader is in use
XrIdle ==
    /\ x_kind = "none"
    /\ x_paths = <<>>
    /\ x_lock = 0
    /\ x_open = <<>>
    /\ x_left = <<>>
    /\ x_pc = <<>>
    /\ x_events = <<>>

\* the devices of the model
Devices == {"sda", "nvme0n1"}

\* PathList<usize>: the group of a device in index_map, Vacant before the
\* device is seen
DriveEntry(kind, list) == [kind |-> kind, list |-> list]

\* PathList<PathBuf>: a group of the result, Ssd or Hdd
PathList(kind, paths) == [kind |-> kind, paths |-> paths]

\* PathResult: Ok(groups) or Err((paths, error))
DriveResult(ok, groups, paths) == [ok |-> ok, groups |-> groups, paths |-> paths]

\* the classifier is not in use
DrvIdle ==
    /\ d_in = <<>>
    /\ d_dev = <<>>
    /\ d_rot = [v \in Devices |-> "0"]
    /\ d_left = {}
    /\ d_map = [v \in Devices |-> DriveEntry("Vacant", <<>>)]
    /\ d_res = DriveResult(FALSE, <<>>, <<>>)
    /\ d_pc = "idle"

MoreIdle == XrIdle /\ DrvIdle

UnitIdle == NewIdle /\ TokIdle /\ CmpIdle /\ RdIdle /\ ApIdle /\ MoreIdle

\* the threads of a create run: the calling thread and the spawned ones
Threads == 1..MaxThreads

\* lib.rs outside a create run
LibIdle ==
    /\ lib_queue = <<>>
    /\ lib_lock = 0
    /\ lib_cancel = FALSE
    /\ max_threads = 1
    /\ handles = 0
    /\ tpc = [t \in Threads |-> "idle"]
    /\ tpath = [t \in Threads |-> <<>>]
    /\ tdir = [t \in Threads |-> <<>>]
    /\ output = FALSE
    /\ written = <<>>
    /\ ret = [kind |-> "none", of |-> 0]
    /\ failed = {}

\* a data line of the hashes file: sep tells whether it holds a `|`
PoolLine(p, h, sep) == [path |-> p, hash |-> h, sep |-> sep]

NoLine == PoolLine(<<>>, <<>>, TRUE)

\* lib.rs outside an audit
PoolIdle ==
    /\ pa_lines = <<>>
    /\ pa_cancel = FALSE
    /\ pa_early = FALSE
    /\ pa_threads = 1
    /\ kpc = [t \in Threads |-> "idle"]
    /\ kline = [t \in Threads |-> NoLine]
    /\ audit_failed = [t \in Threads |-> FALSE]
    /\ pa_ret = "none"
    /\ printed_ok = FALSE

(***************************************************************************)
(* exec/mod.rs: the cancel flag                                            *)
(***************************************************************************)
\* cancel(): CANCEL.store(true)
cancel(c) == TRUE

\* cancel_on_err that stores whether the result is an error
cancel_on_err_store(c, isErr) == isErr

\* cancel_on_err that hands the error on without latching the flag
cancel_on_err_skip(c, isErr) == c

\* cancel_on_err(result): latches the flag when the result is an error
cancel_on_err(c, isErr) == IF isErr THEN cancel(c) ELSE c

(***************************************************************************)
(* exec/mod.rs, hashing.rs: the work engine                                *)
(***************************************************************************)
Workers == 1..NumWorkers

\* HashType: the five algorithms, by their tokens
AlgoList == <<"sha256", "sha1", "md5", "tiger", "whirlpool">>

\* the non-empty chunks fill_buf returns for a file before end of file
FileChunks(p) == IF p = P_a THEN 2 ELSE IF p = P_dg THEN 0 ELSE 1

\* hex::encode(hasher.finalize_reset()) of the file at path p
Digest(algo, p) == [algo |-> algo, of |-> p]

\* push_hash that overwrites the digests instead of appending
push_hash_overwrite(h, hash_str) == <<hash_str>>

\* HashData::push_hash
push_hash(h, hash_str) == IF h = None THEN <<hash_str>> ELSE Append(h, hash_str)

\* pop_front that hands out the front path without removing it
pop_front_peek(q) == [path |-> Head(q), rest |-> q]

\* Queue::pop_front on a non-empty queue
pop_front(q) == [path |-> Head(q), rest |-> Tail(q)]

\* a cancel check whose result the caller ignores
is_canceled_ignored(c) == FALSE

\* is_canceled(): CANCEL.load()
is_canceled(c) == c

\* a worker's locals once the path it held is dropped
NoData == HashData(<<>>, None)

\* how often each path occurs in the sequence q
PathCounts(q) == [p \in PathU |-> Cardinality({i \in DOMAIN q : q[i] = p})]

\* no worker is running: the state of the engine outside a run
EngineIdle ==
    /\ hashes = <<>>
    /\ seeds = <<>>
    /\ queue = <<>>
    /\ qlock = 0
    /\ wpc = [w \in Workers |-> "ok"]
    /\ whd = [w \in Workers |-> NoData]
    /\ walgo = [w \in Workers |-> 0]
    /\ wchunk = [w \in Workers |-> 0]
    /\ wdir = [w \in Workers |-> <<>>]
    /\ wempty = [w \in Workers |-> FALSE]
    /\ wsaw = [w \in Workers |-> FALSE]
    /\ sink = <<>>
    /\ lateRecord = FALSE
    /\ seenRecord = FALSE
    /\ abandoned = {}
    /\ pushed = PathCounts(<<>>)
    /\ popped = PathCounts(<<>>)

\* the worker's locals after its step took it to pc: a worker between two
\* paths, or returned, holds nothing
Locals(w, pc, hd, algo, chunk, saw) ==
    IF pc \in {"pop", "ok", "err"}
    THEN /\ whd' = [whd EXCEPT ![w] = NoData]
         /\ walgo' = [walgo EXCEPT ![w] = 0]
         /\ wchunk' = [wchunk EXCEPT ![w] = 0]
         /\ wsaw' = [wsaw EXCEPT ![w] = FALSE]
    ELSE /\ whd' = [whd EXCEPT ![w] = hd]
         /\ walgo' = [walgo EXCEPT ![w] = algo]
         /\ wchunk' = [wchunk EXCEPT ![w] = chunk]
         /\ wsaw' = [wsaw EXCEPT ![w] = saw]

\* run(): queue.pop_front(), the cancel check and the is_dir branch
Pop(w) ==
    /\ wpc[w] = "pop"
    /\ qlock = 0
    /\ IF queue = <<>>
       THEN /\ wpc' = [wpc EXCEPT ![w] = "ok"]
            /\ Locals(w, "ok", NoData, 0, 0, FALSE)
            /\ UNCHANGED <<queue, popped>>
       ELSE LET pf == pop_front(queue)
                pc == IF is_canceled(CANCEL) THEN "ok"
                      ELSE IF is_dir(fs, pf.path) THEN "dir"
                      ELSE "open"
            IN  /\ queue' = pf.rest
                /\ popped' = [popped EXCEPT ![pf.path] = @ + 1]
                /\ wpc' = [wpc EXCEPT ![w] = pc]
                /\ Locals(w, pc, HashData(pf.path, None), 1, 0, FALSE)
    /\ UNCHANGED <<varsShared, hashes, seeds, qlock, wdir, wempty, sink,
                   lateRecord, seenRecord, abandoned>>
    /\ UNCHANGED pushed
    /\ UNCHANGED notEngine

\* run() that hands every empty directory to the handler
emits_empty_dir_always(is_empty, ed) == is_empty

\* run(): `if is_empty && empty_dirs`
emits_empty_dir(is_empty, ed) == is_empty /\ ed

\* Queue::push_dir: locks the queue and opens the directory
PushDirOpen(w, ioErr) ==
    /\ wpc[w] = "dir"
    /\ qlock = 0
    /\ CANCEL' = cancel_on_err(CANCEL, ioErr)
    /\ IF ioErr
       THEN /\ wpc' = [wpc EXCEPT ![w] = "err"]
            /\ Locals(w, "err", NoData, 0, 0, FALSE)
            /\ UNCHANGED <<qlock, wdir, wempty>>
       ELSE /\ wpc' = [wpc EXCEPT ![w] = "pushdir"]
            /\ qlock' = w
            /\ wdir' = [wdir EXCEPT ![w] = Entries(fs, whd[w].path)]
            /\ wempty' = [wempty EXCEPT ![w] = TRUE]
            /\ UNCHANGED <<whd, walgo, wchunk, wsaw>>
    /\ UNCHANGED <<fs, empty_dirs, hashes, seeds, queue, sink, lateRecord,
                   seenRecord, abandoned>>
    /\ UNCHANGED <<pushed, popped>>
    /\ UNCHANGED notEngine

\* Queue::push_dir: one entry of the directory, or its end; the queue is
\* unlocked on return, and run() hands an empty directory to the handler
PushDirEntry(w, ioErr) ==
    /\ wpc[w] = "pushdir"
    /\ IF wdir[w] = <<>>
       THEN LET pc == IF emits_empty_dir(wempty[w], empty_dirs) THEN "handle" ELSE "pop"
            IN  /\ ~ioErr
                /\ qlock' = 0
                /\ wpc' = [wpc EXCEPT ![w] = pc]
                /\ Locals(w, pc, whd[w], walgo[w], 0, FALSE)
                /\ wempty' = [wempty EXCEPT ![w] = FALSE]
                /\ UNCHANGED <<CANCEL, queue, wdir, pushed>>
       ELSE IF is_canceled(CANCEL)
       THEN /\ ~ioErr
            /\ qlock' = 0
            /\ wpc' = [wpc EXCEPT ![w] = "pop"]
            /\ Locals(w, "pop", NoData, 0, 0, FALSE)
            /\ wempty' = [wempty EXCEPT ![w] = FALSE]
            /\ wdir' = [wdir EXCEPT ![w] = <<>>]
            /\ UNCHANGED <<CANCEL, queue, pushed>>
       ELSE /\ CANCEL' = cancel_on_err(CANCEL, ioErr)
            /\ IF ioErr
               THEN /\ qlock' = 0
                    /\ wpc' = [wpc EXCEPT ![w] = "err"]
                    /\ Locals(w, "err", NoData, 0, 0, FALSE)
                    /\ wempty' = [wempty EXCEPT ![w] = FALSE]
                    /\ wdir' = [wdir EXCEPT ![w] = <<>>]
                    /\ UNCHANGED <<queue, pushed>>
               ELSE /\ queue' = Append(queue, Head(wdir[w]))
                    /\ pushed' = [pushed EXCEPT ![Head(wdir[w])] = @ + 1]
                    /\ wdir' = [wdir EXCEPT ![w] = Tail(wdir[w])]
                    /\ wempty' = [wempty EXCEPT ![w] = FALSE]
                    /\ UNCHANGED <<qlock, wpc, whd, walgo, wchunk, wsaw>>
    /\ UNCHANGED <<fs, empty_dirs, hashes, seeds, sink, lateRecord, seenRecord,
                   abandoned>>
    /\ UNCHANGED popped
    /\ UNCHANGED notEngine

\* hash_file: one turn of the loop (cancel check, fill_buf, update), the
\* first turn after File::open; at end of file the digest is pushed and run()
\* goes to the next algorithm
HashRead(w, ioErr) ==
    /\ wpc[w] \in {"open", "read"}
    /\ IF wpc[w] = "open" /\ ioErr
       THEN /\ CANCEL' = cancel_on_err(CANCEL, TRUE)
            /\ wpc' = [wpc EXCEPT ![w] = "err"]
            /\ Locals(w, "err", NoData, 0, 0, FALSE)
       ELSE IF is_canceled(CANCEL)
       THEN /\ ~ioErr
            /\ wpc' = [wpc EXCEPT ![w] = "ok"]
            /\ Locals(w, "ok", NoData, 0, 0, FALSE)
            /\ UNCHANGED CANCEL
       ELSE /\ CANCEL' = cancel_on_err(CANCEL, ioErr)
            /\ IF ioErr
               THEN /\ wpc' = [wpc EXCEPT ![w] = "err"]
                    /\ Locals(w, "err", NoData, 0, 0, FALSE)
               ELSE IF wchunk[w] < FileChunks(whd[w].path)
               THEN /\ wpc' = [wpc EXCEPT ![w] = "read"]
                    /\ Locals(w, "read", whd[w], walgo[w], wchunk[w] + 1,
                              wsaw[w] \/ CANCEL)
               ELSE LET pc == IF walgo[w] < Len(hashes) THEN "open" ELSE "handle"
                        hd == [whd[w] EXCEPT !.hash =
                                  push_hash(whd[w].hash,
                                            Digest(hashes[walgo[w]], whd[w].path))]
                    IN  /\ wpc' = [wpc EXCEPT ![w] = pc]
                        /\ Locals(w, pc, hd, walgo[w] + 1, 0, wsaw[w] \/ CANCEL)
    /\ abandoned' = (IF (wpc[w] = "read" \/ ~ioErr) /\ is_canceled(CANCEL)
                     THEN abandoned \cup {whd[w].path} ELSE abandoned)
    /\ UNCHANGED <<fs, empty_dirs, hashes, seeds, queue, qlock, wdir, wempty, sink,
                   lateRecord, seenRecord>>
    /\ UNCHANGED <<pushed, popped>>
    /\ UNCHANGED notEngine

\* run(): handler.handle(hash_data), the record reaches the sink or the
\* write fails
Handle(w, ioErr) ==
    /\ wpc[w] = "handle"
    /\ CANCEL' = cancel_on_err(CANCEL, ioErr)
    /\ IF ioErr
       THEN /\ wpc' = [wpc EXCEPT ![w] = "err"]
            /\ Locals(w, "err", NoData, 0, 0, FALSE)
            /\ UNCHANGED <<sink, lateRecord, seenRecord>>
       ELSE /\ wpc' = [wpc EXCEPT ![w] = "pop"]
            /\ Locals(w, "pop", NoData, 0, 0, FALSE)
            /\ sink' = Append(sink, whd[w])
            /\ lateRecord' = (lateRecord \/ (CANCEL /\ ~is_dir(fs, whd[w].path)))
            /\ seenRecord' = (seenRecord \/ wsaw[w])
    /\ UNCHANGED <<fs, empty_dirs, hashes, seeds, queue, qlock, wdir, wempty,
                   abandoned>>
    /\ UNCHANGED <<pushed, popped>>
    /\ UNCHANGED notEngine

\* cancel() called from outside the workers (the comparator in early mode)
ExternalCancel ==
    /\ ~CANCEL
    /\ \E w \in Workers : wpc[w] \notin {"ok", "err"}
    /\ CANCEL' = cancel(CANCEL)
    /\ UNCHANGED <<fs, empty_dirs, varsEngine>>
    /\ UNCHANGED notEngine

\* the comparator outside an audit
AuditIdle ==
    /\ early = FALSE
    /\ manifest = <<>>
    /\ reader = <<>>
    /\ source = <<>>
    /\ backlog = <<>>
    /\ audit_err = FALSE
    /\ cur = NoData
    /\ scanLeft = 0
    /\ cpc = "done"
    /\ result = "none"
    /\ findings = <<>>
    /\ delivered = <<>>
    /\ unsent = {}
    /\ chanOpen = FALSE
    /\ workerErr = FALSE
    /\ consumed = <<>>
    /\ scan0 = <<>>

\* the paths given as seeds; d/g is reached only through d
SeedPaths == {P_a, P_d, P_df}

\* sequences without repetition
Distinct(s) == Cardinality(Range(s)) = Len(s)

\* Queue::new succeeded on the seeds (every seed exists) and the workers start
InitEngine ==
    /\ CANCEL = FALSE
    /\ fs \in FileSystems
    /\ empty_dirs \in BOOLEAN
    /\ hashes \in {SubSeq(AlgoList, 1, n) : n \in 1..MaxAlgos}
    /\ seeds \in {sd \in BoundedSeq({p \in SeedPaths : fs[p] # "none"}, MaxSeeds) :
                      Len(sd) >= 1 /\ Distinct(sd)}
    /\ queue = seeds
    /\ qlock = 0
    /\ wpc = [w \in Workers |-> "pop"]
    /\ whd = [w \in Workers |-> NoData]
    /\ walgo = [w \in Workers |-> 0]
    /\ wchunk = [w \in Workers |-> 0]
    /\ wdir = [w \in Workers |-> <<>>]
    /\ wempty = [w \in Workers |-> FALSE]
    /\ wsaw = [w \in Workers |-> FALSE]
    /\ sink = <<>>
    /\ lateRecord = FALSE
    /\ seenRecord = FALSE
    /\ abandoned = {}
    /\ pushed = PathCounts(seeds)
    /\ popped = PathCounts(<<>>)
    /\ AuditIdle
    /\ LibIdle
    /\ PoolIdle
    /\ TextIdle
    /\ UnitIdle

NextEngine ==
    \/ \E w \in Workers : Pop(w)
    \/ \E w \in Workers, e \in BOOLEAN : PushDirOpen(w, e)
    \/ \E w \in Workers, e \in BOOLEAN : PushDirEntry(w, e)
    \/ \E w \in Workers, e \in BOOLEAN : HashRead(w, e)
    \/ \E w \in Workers, e \in BOOLEAN : Handle(w, e)
    \/ ExternalCancel

SpecEngine == InitEngine /\ [][NextEngine]_vars

(***************************************************************************)
(* Properties of the work engine                                           *)
(***************************************************************************)
\* s is p or an ancestor of p
IsPrefix(s, p) == Len(s) <= Len(p) /\ SubSeq(p, 1, Len(s)) = s

\* the regular files the walk from the seeds reaches
FilesUnderSeeds ==
    {p \in PathU : fs[p] = "file" /\ \E i \in 1..Len(seeds) : IsPrefix(seeds[i], p)}

\* the records the sink holds for path p
Count(p) == Cardinality({i \in 1..Len(sink) : sink[i].path = p})

\* every worker returned Ok and the flag was never latched
CleanRun == (\A w \in Workers : wpc[w] = "ok") /\ ~CANCEL

\* no seed is another seed or lies under one
NonOverlapping(sd) ==
    \A i, j \in 1..Len(sd) : i # j => ~IsPrefix(sd[i], sd[j])

\* C6 as claimed: after a clean run every regular file under the seeds has
\* exactly one record in the sink, for every list of seeds.
C6_ExactlyOneRecordPerFile ==
    CleanRun => \A p \in FilesUnderSeeds : Count(p) = 1

\* C6 amended: with seeds none of which lies under another, no file is ever
\* recorded twice, no other path gets a file record, and after a clean run
\* every regular file under the seeds has exactly one record.
C6_OneRecordPerFileDisjointSeeds ==
    NonOverlapping(seeds) =>
        /\ \A p \in PathU : fs[p] = "file" => Count(p) <= 1
        /\ \A p \in PathU : (fs[p] = "file" /\ p \notin FilesUnderSeeds) => Count(p) = 0
        /\ CleanRun => \A p \in FilesUnderSeeds : Count(p) = 1

C6_Witness ==
    /\ NonOverlapping(seeds)
    /\ CleanRun
    /\ Len(seeds) = 2
    /\ FilesUnderSeeds = {P_a, P_df, P_dg}
    /\ \A p \in FilesUnderSeeds : Count(p) = 1

\* the digests of the file at p under the configured algorithms, in order
AllDigests(p) == [k \in 1..Len(hashes) |-> Digest(hashes[k], p)]

\* C7: a record in the sink has one digest per configured algorithm, in the
\* configured order, or none; it has none iff it stands for an empty directory.
C7_DigestsPerRecord ==
    \A i \in 1..Len(sink) :
        /\ sink[i].hash = None \/ sink[i].hash = AllDigests(sink[i].path)
        /\ sink[i].hash = None
              <=> (is_dir(fs, sink[i].path) /\ Entries(fs, sink[i].path) = <<>>)

C7_Witness ==
    /\ Len(hashes) = 2
    /\ \E i, j \in 1..Len(sink) :
          /\ sink[i].hash = None
          /\ sink[j].hash = AllDigests(sink[j].path)

\* C8 as claimed: no file's record reaches the sink once the flag is latched.
C8_NoRecordAfterCancel == ~lateRecord

\* C8 amended: a file's record never reaches the sink when one of
\* hash_file's cancel checks for that file found the flag set; a flag
\* latched after the last check does not stop the record.
C8_NoRecordOnceCancelSeen == ~seenRecord

C8_Witness ==
    /\ CANCEL
    /\ \A w \in Workers : wpc[w] = "ok"
    /\ \E p \in abandoned : Count(p) = 0

\* C9: once set the cancel flag stays set.
C9_CancelMonotonic == [][CANCEL => CANCEL']_vars

C9_Witness ==
    /\ CANCEL
    /\ sink # <<>>
    /\ \E w \in Workers : wpc[w] = "err"
    /\ \E w \in Workers : wpc[w] = "ok"

\* C10: a worker that returned an error latched the flag first.
C10_ErrorAfterLatch == \A w \in Workers : wpc[w] = "err" => CANCEL

C10_Witness ==
    /\ \E w \in Workers : wpc[w] = "err"
    /\ abandoned # {}

\* one step of worker w's thread in run()
WorkerStep(w) ==
    \/ Pop(w)
    \/ \E e \in BOOLEAN : PushDirOpen(w, e)
    \/ \E e \in BOOLEAN : PushDirEntry(w, e)
    \/ \E e \in BOOLEAN : HashRead(w, e)
    \/ \E e \in BOOLEAN : Handle(w, e)

\* the engine with every worker thread scheduled again and again
SpecEngineFair == SpecEngine /\ \A w \in Workers : WF_vars(WorkerStep(w))

compare_paths_prefix(f, reader_path, path) ==
    IF reader_path = path THEN "Ok"
    ELSE IF is_dir(f, reader_path) /\ ~is_dir(f, path)
         THEN IF IsPrefix(reader_path, path) THEN "Extra" ELSE "Unrelated"
    ELSE IF ~is_dir(f, reader_path) /\ is_dir(f, path)
         THEN IF IsPrefix(path, reader_path) THEN "EmptyDir" ELSE "Unrelated"
    ELSE "Unrelated"

\* compare_paths(reader_path, path)
compare_paths(f, reader_path, path) ==
    IF reader_path = path THEN "Ok"
    ELSE IF is_dir(f, reader_path) /\ ~is_dir(f, path)
         THEN IF HasParent(path) /\ Parent(path) = reader_path
              THEN "Extra" ELSE "Unrelated"
    ELSE IF ~is_dir(f, reader_path) /\ is_dir(f, path)
         THEN IF HasParent(reader_path) /\ Parent(reader_path) = path
              THEN "EmptyDir" ELSE "Unrelated"
    ELSE "Unrelated"

\* print_and_cancel that forgets to latch the flag in early mode
print_and_cancel_no_latch(c, e) == c

\* AuditError::print_and_cancel: prints the finding, latches the flag if early
print_and_cancel(c, e) == IF e THEN cancel(c) ELSE c

Finding(kind, p) == [kind |-> kind, path |-> p]

\* try_from_string that accepts an empty digest part whatever empty_dirs is
LineOk_ignore_option(rec, ed) == TRUE

\* HashData::try_from_string on a data line: an empty digest part is an
\* empty directory, accepted only with empty_dirs.
LineOk(rec, ed) == ~(rec.hash = None /\ ~ed)

\* search_backlog that pushes the matched record back instead of consuming it
search_backlog_step_keep(f, bl, hd) ==
    LET B == Head(bl)
        c == compare_paths(f, B.path, hd.path)
    IN  CASE c = "Ok" ->
                [bl |-> Append(Tail(bl), B),
                 ret |-> IF B.hash = hd.hash THEN "true" ELSE "Mismatch"]
          [] c = "Unrelated" -> [bl |-> Append(Tail(bl), B), ret |-> "next"]
          [] c = "EmptyDir" -> [bl |-> Append(Tail(bl), B), ret |-> "EmptyDir"]
          [] c = "Extra" -> [bl |-> Tail(bl), ret |-> "Extra"]

\* search_backlog that does not push an unrelated record back
search_backlog_step_drop(f, bl, hd) ==
    LET B == Head(bl)
        c == compare_paths(f, B.path, hd.path)
    IN  CASE c = "Ok" ->
                [bl |-> Tail(bl),
                 ret |-> IF B.hash = hd.hash THEN "true" ELSE "Mismatch"]
          [] c = "Unrelated" -> [bl |-> Tail(bl), ret |-> "next"]
          [] c = "EmptyDir" -> [bl |-> Append(Tail(bl), B), ret |-> "EmptyDir"]
          [] c = "Extra" -> [bl |-> Tail(bl), ret |-> "Extra"]

\* One iteration of search_backlog's loop after the cancel check: pops the
\* front record and compares it with the live record hd.
\* ret: "next" (keep scanning), "true" (Ok(true)), or the AuditError.
search_backlog_step(f, bl, hd) ==
    LET B == Head(bl)
        c == compare_paths(f, B.path, hd.path)
    IN  CASE c = "Ok" ->
                [bl |-> Tail(bl),
                 ret |-> IF B.hash = hd.hash THEN "true" ELSE "Mismatch"]
          [] c = "Unrelated" -> [bl |-> Append(Tail(bl), B), ret |-> "next"]
          [] c = "EmptyDir" -> [bl |-> Append(Tail(bl), B), ret |-> "EmptyDir"]
          [] c = "Extra" -> [bl |-> Tail(bl), ret |-> "Extra"]

\* One iteration of search_reader's loop on a parsed line R.
\* ret: "next" (continue), "ok" (Some(Ok)), or the AuditError.
search_reader_step(f, bl, R, hd) ==
    LET c == compare_paths(f, R.path, hd.path)
    IN  CASE c = "Ok" ->
                [bl |-> bl, ret |-> IF R.hash = hd.hash THEN "ok" ELSE "Mismatch"]
          [] c = "Unrelated" -> [bl |-> Append(bl, R), ret |-> "next"]
          [] c = "EmptyDir" -> [bl |-> Append(bl, R), ret |-> "EmptyDir"]
          [] c = "Extra" -> [bl |-> bl, ret |-> "Extra"]

\* flush_reader that reads the remaining lines without keeping them
flush_reader_drop(rd, bl, ed) == [bl |-> bl, rd |-> <<>>, err |-> FALSE]

\* flush_reader: pushes the remaining lines to the backlog up to the first
\* line that fails to parse.
RECURSIVE flush_reader(_, _, _)
flush_reader(rd, bl, ed) ==
    IF rd = <<>> THEN [bl |-> bl, rd |-> rd, err |-> FALSE]
    ELSE IF ~LineOk(Head(rd), ed) THEN [bl |-> bl, rd |-> Tail(rd), err |-> TRUE]
    ELSE flush_reader(Tail(rd), Append(bl, Head(rd)), ed)

\* check() after search() returned Ok: an empty backlog returns audit_err,
\* otherwise the backlog is reported.
AfterSearch(bl) ==
    IF bl = <<>>
    THEN /\ cpc' = "done"
         /\ result' = (IF audit_err THEN "true" ELSE "false")
    ELSE /\ cpc' = "report"
         /\ result' = result

\* a recv() that gives up as soon as no record is waiting
recv_fails_when_empty(open, src) == src = <<>>

\* search(): `while let Ok(hash_data) = self.source.recv()` ends when recv
\* fails: every Sender is dropped and no sent record is left
recv_fails(open, src) == ~open /\ src = <<>>

\* HashHandler for Sender<HashData>: a worker sends a record
Send(r) ==
    /\ UNCHANGED notAudit
    /\ UNCHANGED <<consumed, scan0>>
    /\ chanOpen
    /\ cpc # "done"
    /\ r \in unsent
    /\ unsent' = unsent \ {r}
    /\ source' = Append(source, r)
    /\ UNCHANGED <<varsShared, early, manifest, reader, backlog, audit_err, cur,
                   scanLeft, cpc, result, findings, delivered, chanOpen, workerErr>>

\* a worker fails on a path (cancel_on_err latches the flag) and returns
WorkerError(r) ==
    /\ UNCHANGED notAudit
    /\ UNCHANGED <<consumed, scan0>>
    /\ chanOpen
    /\ r \in unsent
    /\ unsent' = unsent \ {r}
    /\ CANCEL' = cancel_on_err(CANCEL, TRUE)
    /\ workerErr' = TRUE
    /\ UNCHANGED <<fs, empty_dirs, early, manifest, reader, source, backlog,
                   audit_err, cur, scanLeft, cpc, result, findings, delivered,
                   chanOpen>>

\* every worker has returned from run(): the queue is empty or the flag is set
WorkersReturn ==
    /\ UNCHANGED notAudit
    /\ UNCHANGED <<consumed, scan0>>
    /\ chanOpen
    /\ unsent = {} \/ CANCEL
    /\ chanOpen' = FALSE
    /\ UNCHANGED <<varsShared, early, manifest, reader, source, backlog, audit_err,
                   cur, scanLeft, cpc, result, findings, delivered, unsent,
                   workerErr>>

\* search(): self.source.recv() returns a record
Recv ==
    /\ UNCHANGED notAudit
    /\ UNCHANGED consumed
    /\ scan0' = backlog
    /\ cpc = "recv"
    /\ source # <<>>
    /\ source' = Tail(source)
    /\ delivered' = Append(delivered, Head(source))
    /\ cur' = Head(source)
    /\ IF is_canceled(CANCEL)
       THEN AfterSearch(backlog) /\ scanLeft' = scanLeft
       ELSE /\ result' = result
            /\ IF backlog # <<>>
               THEN cpc' = "backlog" /\ scanLeft' = Len(backlog)
               ELSE cpc' = "reader" /\ scanLeft' = scanLeft
    /\ UNCHANGED <<varsShared, early, manifest, reader, backlog, audit_err,
                   findings, unsent, chanOpen, workerErr>>

\* search(): recv() fails because every sender is dropped; flush_reader, then
\* check() goes on
ChannelClosed ==
    /\ UNCHANGED notAudit
    /\ UNCHANGED <<consumed, scan0>>
    /\ cpc = "recv"
    /\ recv_fails(chanOpen, source)
    /\ LET fl == flush_reader(reader, backlog, empty_dirs)
       IN  /\ reader' = fl.rd
           /\ backlog' = fl.bl
           /\ IF fl.err
              THEN cpc' = "done" /\ result' = "error"
              ELSE AfterSearch(fl.bl)
    /\ UNCHANGED <<varsShared, early, manifest, source, audit_err, cur, scanLeft,
                   findings, delivered, unsent, chanOpen, workerErr>>

\* search_backlog: one iteration of the loop, and search()'s handling of
\* what it returns
ScanBacklog ==
    /\ UNCHANGED notAudit
    /\ UNCHANGED scan0
    /\ cpc = "backlog"
    /\ IF is_canceled(CANCEL)
       THEN /\ cpc' = "reader"
            /\ UNCHANGED <<CANCEL, backlog, audit_err, findings, scanLeft, consumed>>
       ELSE LET st == search_backlog_step(fs, backlog, cur)
            IN  /\ backlog' = st.bl
                /\ consumed' = (IF st.ret = "next" THEN consumed
                                ELSE Append(consumed, Head(backlog)))
                /\ scanLeft' = scanLeft - 1
                /\ IF st.ret = "true"
                   THEN /\ cpc' = "recv"
                        /\ UNCHANGED <<CANCEL, audit_err, findings>>
                   ELSE IF st.ret = "next"
                   THEN /\ cpc' = (IF scanLeft = 1 THEN "reader" ELSE "backlog")
                        /\ UNCHANGED <<CANCEL, audit_err, findings>>
                   ELSE /\ audit_err' = TRUE
                        /\ findings' = Append(findings, Finding(st.ret, cur.path))
                        /\ CANCEL' = print_and_cancel(CANCEL, early)
                        /\ cpc' = "reader"
    /\ UNCHANGED <<fs, empty_dirs, early, manifest, reader, source, cur, result,
                   delivered, unsent, chanOpen, workerErr>>

\* search_reader: one iteration of the loop, and search()'s handling of
\* what it returns
SearchReader ==
    /\ UNCHANGED notAudit
    /\ UNCHANGED scan0
    /\ cpc = "reader"
    /\ IF is_canceled(CANCEL)
       THEN /\ cpc' = "recv"
            /\ UNCHANGED <<CANCEL, reader, backlog, audit_err, findings, result,
                           consumed>>
       ELSE IF reader = <<>>
       THEN /\ audit_err' = TRUE
            /\ findings' = Append(findings, Finding("Extra", cur.path))
            /\ CANCEL' = print_and_cancel(CANCEL, early)
            /\ cpc' = "recv"
            /\ UNCHANGED <<reader, backlog, result, consumed>>
       ELSE IF ~LineOk(Head(reader), empty_dirs)
       THEN /\ reader' = Tail(reader)
            /\ CANCEL' = cancel_on_err(CANCEL, TRUE)
            /\ cpc' = "done"
            /\ result' = "error"
            /\ UNCHANGED <<backlog, audit_err, findings, consumed>>
       ELSE LET st == search_reader_step(fs, backlog, Head(reader), cur)
            IN  /\ reader' = Tail(reader)
                /\ backlog' = st.bl
                /\ consumed' = (IF st.ret = "next" THEN consumed
                                ELSE Append(consumed, Head(reader)))
                /\ result' = result
                /\ IF st.ret = "ok"
                   THEN /\ cpc' = "recv"
                        /\ UNCHANGED <<CANCEL, audit_err, findings>>
                   ELSE IF st.ret = "next"
                   THEN /\ cpc' = "reader"
                        /\ UNCHANGED <<CANCEL, audit_err, findings>>
                   ELSE /\ audit_err' = TRUE
                        /\ findings' = Append(findings, Finding(st.ret, cur.path))
                        /\ CANCEL' = print_and_cancel(CANCEL, early)
                        /\ cpc' = "recv"
    /\ UNCHANGED <<fs, empty_dirs, early, manifest, source, cur, scanLeft,
                   delivered, unsent, chanOpen, workerErr>>

\* check(): one iteration of the loop over backlog.drain(..)
Report ==
    /\ UNCHANGED notAudit
    /\ UNCHANGED <<consumed, scan0>>
    /\ cpc = "report"
    /\ IF is_canceled(CANCEL)
       THEN /\ backlog' = <<>>
            /\ cpc' = "done"
            /\ result' = (IF audit_err THEN "true" ELSE "false")
            /\ UNCHANGED <<CANCEL, findings>>
       ELSE /\ findings' = Append(findings, Finding("NotFound", Head(backlog).path))
            /\ CANCEL' = print_and_cancel(CANCEL, early)
            /\ backlog' = Tail(backlog)
            /\ IF Tail(backlog) = <<>>
               THEN cpc' = "done" /\ result' = "true"
               ELSE cpc' = "report" /\ result' = result
    /\ UNCHANGED <<fs, empty_dirs, early, manifest, reader, source, audit_err, cur,
                   scanLeft, delivered, unsent, chanOpen, workerErr>>

\* The file systems and manifests of the audit: no d/g.
AuditPaths == {P_a, P_d, P_df}

AuditFS == {f \in FileSystems : f[P_dg] = "none"}

ManifestRecords == {HashData(p, h) : p \in AuditPaths, h \in ManifestHashes}

\* Checker::new on a loaded hashes file, the workers about to start
InitAudit ==
    /\ CANCEL = FALSE
    /\ fs \in AuditFS
    /\ empty_dirs \in BOOLEAN
    /\ early \in BOOLEAN
    /\ manifest \in BoundedSeq(ManifestRecords, MaxLines)
    /\ reader = manifest
    /\ source = <<>>
    /\ backlog = <<>>
    /\ audit_err = FALSE
    /\ cur = NoData
    /\ scanLeft = 0
    /\ cpc = "recv"
    /\ result = "none"
    /\ findings = <<>>
    /\ delivered = <<>>
    /\ unsent = LiveRecords(fs, empty_dirs)
    /\ chanOpen = TRUE
    /\ workerErr = FALSE
    /\ consumed = <<>>
    /\ scan0 = <<>>
    /\ EngineIdle
    /\ LibIdle
    /\ PoolIdle
    /\ TextIdle
    /\ UnitIdle

NextAudit ==
    \/ \E r \in unsent : Send(r)
    \/ \E r \in unsent : WorkerError(r)
    \/ WorkersReturn
    \/ Recv
    \/ ChannelClosed
    \/ ScanBacklog
    \/ SearchReader
    \/ Report

SpecAudit == InitAudit /\ [][NextAudit]_vars

(***************************************************************************)
(* Properties of the audit comparator                                      *)
(***************************************************************************)
PathsOf(S) == {r.path : r \in S}

NoDupPaths(m) == Cardinality(PathsOf(Range(m))) = Len(m)

Live == LiveRecords(fs, empty_dirs)

\* The manifest is what a create run with the same options writes for some tree.
Producible(m) ==
    /\ NoDupPaths(m)
    /\ \E f0 \in AuditFS :
          /\ PathsOf(Range(m)) = PathsOf(LiveRecords(f0, empty_dirs))
          /\ \A r \in Range(m) : (r.hash = None) <=> (f0[r.path] = "dir")

\* The manifest holds exactly the records the live scan emits.
Unchanged == Range(manifest) = Live /\ NoDupPaths(manifest)

\* C1: auditing an unchanged tree emits no finding and check() returns false,
\* whatever the order of the live records and of the manifest lines.
C1_UnchangedTreeNoFinding ==
    Unchanged => (findings = <<>> /\ result \in {"none", "false"})

C1_Witness ==
    /\ Unchanged
    /\ Len(manifest) = 2
    /\ delivered = <<manifest[2], manifest[1]>>
    /\ ~CANCEL
    /\ cpc = "done"
    /\ result = "false"

\* Same paths on both sides, exactly one record (path p) with another digest.
OneMismatch(p) ==
    /\ NoDupPaths(manifest)
    /\ PathsOf(Range(manifest)) = PathsOf(Live)
    /\ \A r \in Range(manifest) : LineOk(r, empty_dirs)
    /\ PathsOf(Range(manifest) \ Live) = {p}

\* C2: one changed file gives exactly one finding, Mismatch(p), in every
\* order of delivery (non-early mode).
C2_ExactlyOneMismatch ==
    \A p \in AuditPaths :
        (OneMismatch(p) /\ ~early /\ ~workerErr /\ cpc = "done")
            => findings = <<Finding("Mismatch", p)>>

\* The manifest is the live scan plus one record for path b.
OneMissing(b) ==
    /\ b \notin PathsOf(Live)
    /\ Live \subseteq Range(manifest)
    /\ PathsOf(Range(manifest)) = PathsOf(Live) \cup {b}
    /\ Producible(manifest)

\* The live scan is the manifest plus one record for path c.
OneAdded(c) ==
    /\ c \notin PathsOf(Range(manifest))
    /\ Range(manifest) \subseteq Live
    /\ PathsOf(Live) = PathsOf(Range(manifest)) \cup {c}
    /\ NoDupPaths(manifest)

OnlyFinding(kind, p) ==
    /\ findings \in {<<>>, <<Finding(kind, p)>>}
    /\ (cpc = "done" /\ ~workerErr) => findings = <<Finding(kind, p)>>

C4_FindingGivesAuditErr ==
    (cpc = "done" /\ result \in {"true", "false"} /\ findings # <<>>)
        => result = "true"

\* C5: early mode emits at most one finding, and that finding latches the flag.
C5_EarlyAtMostOneFinding ==
    early => (Len(findings) <= 1 /\ (findings # <<>> => CANCEL))

C5_Witness ==
    /\ early
    /\ cpc = "done"
    /\ Len(findings) = 1
    /\ Len(manifest) = 2
    /\ NoDupPaths(manifest)
    /\ Range(manifest) \cap Live = {}
    /\ Cardinality(Live) = 2

\* the manifest lines read_next has read so far
LinesRead == SubSeq(manifest, 1, Len(manifest) - Len(reader))

\* a line with an empty digest part has been read
EmptyDirLineRead == \E i \in 1..Len(LinesRead) : LinesRead[i].hash = None

\* the line read last is the first with an empty digest part
LastReadIsFirstEmpty ==
    /\ LinesRead # <<>>
    /\ LinesRead[Len(LinesRead)].hash = None
    /\ \A i \in 1..(Len(LinesRead) - 1) : LinesRead[i].hash # None

lib_cancel_on_err(c, isErr) == IF isErr THEN TRUE ELSE c

\* the threads create_hashes has spawned: the handles, in order
Spawned == 2..(handles + 1)

\* handle.is_finished() of every handle
AllFinished == \A k \in Spawned : tpc[k] \in {"ok", "err"}

NoRet == [kind |-> "none", of |-> 0]

\* err_cleanup's result: the first error among the joined handles
err_cleanup ==
    IF \E k \in Spawned : tpc[k] = "err"
    THEN [kind |-> "Err",
          of |-> CHOOSE k \in Spawned :
                    tpc[k] = "err" /\ \A j \in Spawned : tpc[j] = "err" => k <= j]
    ELSE [kind |-> "Ok", of |-> 0]

\* the `?` on a failed operation of thread t: run() latches the flag through
\* cancel_on_err, the calling thread leaves the scope closure without it
Fail(t) ==
    /\ failed' = failed \cup {t}
    /\ IF t = 1
       THEN /\ tpc' = [tpc EXCEPT ![t] = "scope_err"]
            /\ UNCHANGED lib_cancel
       ELSE /\ tpc' = [tpc EXCEPT ![t] = "err"]
            /\ lib_cancel' = lib_cancel_on_err(lib_cancel, TRUE)
    /\ tpath' = [tpath EXCEPT ![t] = <<>>]

\* queue.pop_front() of run() and of create_hashes' loop; with the queue
\* empty run() returns Ok and create_hashes returns Ok once every handle
\* is finished (it sleeps and polls again otherwise)
LibPop(t) ==
    /\ tpc[t] = "pop"
    /\ lib_lock = 0
    /\ IF lib_queue = <<>>
       THEN /\ t = 1 => AllFinished
            /\ tpc' = [tpc EXCEPT ![t] = IF t = 1 THEN "done" ELSE "ok"]
            /\ ret' = (IF t = 1 THEN [kind |-> "Ok", of |-> 0] ELSE ret)
            /\ UNCHANGED <<lib_queue, tpath>>
       ELSE /\ lib_queue' = Tail(lib_queue)
            /\ tpath' = [tpath EXCEPT ![t] = Head(lib_queue)]
            /\ tpc' = [tpc EXCEPT ![t] = "check"]
            /\ UNCHANGED ret
    /\ UNCHANGED <<fs, lib_lock, lib_cancel, max_threads, handles, tdir, output,
                   written, failed>>
    /\ UNCHANGED notLib

\* `let max_threads = max_threads - 1` on u8: the subtraction wraps, 0 - 1
\* is 255 (a build with overflow checks panics instead, see InitLib)
spawn_limit(mt) == (mt + 255) % 256

\* the cancel check on the path a thread holds, the spawn of a new thread by
\* the calling thread while handles.len() < max_threads - 1, the is_dir branch;
\* the model has MaxThreads threads and stops a run that needs more
LibCheck(t) ==
    /\ tpc[t] = "check"
    /\ (t = 1 /\ ~lib_cancel /\ handles < spawn_limit(max_threads))
           => handles + 2 <= MaxThreads
    /\ IF lib_cancel
       THEN /\ tpc' = [tpc EXCEPT ![t] = IF t = 1 THEN "cleanup" ELSE "ok"]
            /\ tpath' = [tpath EXCEPT ![t] = <<>>]
            /\ UNCHANGED handles
       ELSE IF t = 1 /\ handles < spawn_limit(max_threads)
       THEN /\ handles' = handles + 1
            /\ tpc' = [tpc EXCEPT ![1] = "pop", ![handles + 2] = "check"]
            /\ tpath' = [tpath EXCEPT ![1] = <<>>, ![handles + 2] = tpath[1]]
       ELSE /\ tpc' = [tpc EXCEPT ![t] = IF is_dir(fs, tpath[t]) THEN "dir" ELSE "open"]
            /\ UNCHANGED <<tpath, handles>>
    /\ UNCHANGED <<fs, lib_queue, lib_lock, lib_cancel, max_threads, tdir, output,
                   written, ret, failed>>
    /\ UNCHANGED notLib

\* Queue::push_dir of lib.rs: locks the queue and opens the directory
LibPushDirOpen(t, ioErr) ==
    /\ tpc[t] = "dir"
    /\ lib_lock = 0
    /\ IF ioErr
       THEN /\ Fail(t)
            /\ UNCHANGED <<lib_lock, tdir>>
       ELSE /\ lib_lock' = t
            /\ tdir' = [tdir EXCEPT ![t] = Entries(fs, tpath[t])]
            /\ tpc' = [tpc EXCEPT ![t] = "pushdir"]
            /\ UNCHANGED <<lib_cancel, tpath, failed>>
    /\ UNCHANGED <<fs, lib_queue, max_threads, handles, output, written, ret>>
    /\ UNCHANGED notLib

\* Queue::push_dir of lib.rs: one entry of the directory, or its end
LibPushDirEntry(t, ioErr) ==
    /\ tpc[t] = "pushdir"
    /\ IF tdir[t] = <<>> \/ lib_cancel
       THEN /\ ~ioErr
            /\ lib_lock' = 0
            /\ tdir' = [tdir EXCEPT ![t] = <<>>]
            /\ tpc' = [tpc EXCEPT ![t] = "pop"]
            /\ tpath' = [tpath EXCEPT ![t] = <<>>]
            /\ UNCHANGED <<lib_queue, lib_cancel, failed>>
       ELSE IF ioErr
       THEN /\ Fail(t)
            /\ lib_lock' = 0
            /\ tdir' = [tdir EXCEPT ![t] = <<>>]
            /\ UNCHANGED lib_queue
       ELSE /\ lib_queue' = Append(lib_queue, Head(tdir[t]))
            /\ tdir' = [tdir EXCEPT ![t] = Tail(tdir[t])]
            /\ UNCHANGED <<lib_lock, lib_cancel, tpc, tpath, failed>>
    /\ UNCHANGED <<fs, max_threads, handles, output, written, ret>>
    /\ UNCHANGED notLib

\* hash_file of lib.rs: File::open
LibOpen(t, ioErr) ==
    /\ tpc[t] = "open"
    /\ IF ioErr
       THEN Fail(t)
       ELSE /\ tpc' = [tpc EXCEPT ![t] = "read"]
            /\ UNCHANGED <<lib_cancel, tpath, failed>>
    /\ UNCHANGED <<fs, lib_queue, lib_lock, max_threads, handles, tdir, output,
                   written, ret>>
    /\ UNCHANGED notLib

\* OutFile::write_line: hash_file's loop, which a set flag ends with
\* Hashed::Canceled, and the write of the data line
LibWriteLine(t, ioErr) ==
    /\ tpc[t] = "read"
    /\ IF lib_cancel
       THEN /\ ~ioErr
            /\ tpc' = [tpc EXCEPT ![t] = "pop"]
            /\ tpath' = [tpath EXCEPT ![t] = <<>>]
            /\ UNCHANGED <<lib_cancel, written, failed>>
       ELSE IF ioErr
       THEN /\ Fail(t)
            /\ UNCHANGED written
       ELSE /\ written' = Append(written, tpath[t])
            /\ tpc' = [tpc EXCEPT ![t] = "pop"]
            /\ tpath' = [tpath EXCEPT ![t] = <<>>]
            /\ UNCHANGED <<lib_cancel, failed>>
    /\ UNCHANGED <<fs, lib_queue, lib_lock, max_threads, handles, tdir, output, ret>>
    /\ UNCHANGED notLib

\* err_cleanup: joins the handles, removes the output file, returns the
\* first error
LibErrCleanup ==
    /\ tpc[1] = "cleanup"
    /\ AllFinished
    /\ ret' = err_cleanup
    /\ output' = FALSE
    /\ tpc' = [tpc EXCEPT ![1] = "done"]
    /\ UNCHANGED <<fs, lib_queue, lib_lock, lib_cancel, max_threads, handles, tpath,
                   tdir, written, failed>>
    /\ UNCHANGED notLib

\* the calling thread's own `?`: thread::scope joins the spawned threads and
\* create_hashes returns the error
LibScopeErr ==
    /\ tpc[1] = "scope_err"
    /\ AllFinished
    /\ ret' = [kind |-> "Err", of |-> 1]
    /\ tpc' = [tpc EXCEPT ![1] = "done"]
    /\ UNCHANGED <<fs, lib_queue, lib_lock, lib_cancel, max_threads, handles, tpath,
                   tdir, output, written, failed>>
    /\ UNCHANGED notLib

\* create_hashes after Queue::new and OutFile::new succeeded; with
\* max_threads = 0 a build with overflow checks panics at `max_threads - 1`
InitLib ==
    /\ CANCEL = FALSE
    /\ fs \in FileSystems
    /\ empty_dirs = FALSE
    /\ lib_queue \in {sd \in BoundedSeq({p \in SeedPaths : fs[p] # "none"}, MaxSeeds) :
                         Len(sd) >= 1 /\ Distinct(sd)}
    /\ lib_lock = 0
    /\ lib_cancel = FALSE
    /\ max_threads \in 0..MaxThreads
    /\ handles = 0
    /\ \E first \in (IF max_threads = 0 THEN {"pop", "panic"} ELSE {"pop"}) :
           tpc = [t \in Threads |-> IF t = 1 THEN first ELSE "idle"]
    /\ tpath = [t \in Threads |-> <<>>]
    /\ tdir = [t \in Threads |-> <<>>]
    /\ output = TRUE
    /\ written = <<>>
    /\ ret = NoRet
    /\ failed = {}
    /\ AuditIdle
    /\ EngineIdle
    /\ PoolIdle
    /\ TextIdle
    /\ UnitIdle

NextLib ==
    \/ \E t \in Threads : LibPop(t)
    \/ \E t \in Threads : LibCheck(t)
    \/ \E t \in Threads, e \in BOOLEAN : LibPushDirOpen(t, e)
    \/ \E t \in Threads, e \in BOOLEAN : LibPushDirEntry(t, e)
    \/ \E t \in Threads, e \in BOOLEAN : LibOpen(t, e)
    \/ \E t \in Threads, e \in BOOLEAN : LibWriteLine(t, e)
    \/ LibErrCleanup
    \/ LibScopeErr

SpecLib == InitLib /\ [][NextLib]_vars

\* C12: create_hashes never returns Ok when a hashing thread failed.
C12_FailureGivesError ==
    (tpc[1] = "done" /\ failed # {}) => ret.kind = "Err"

\* C13: when create_hashes returns after a failure or with the flag latched,
\* the output file is gone.
C13_NoManifestAfterFailure ==
    (tpc[1] = "done" /\ (failed # {} \/ lib_cancel)) => ~output

(***************************************************************************)
(* lib.rs: audit and its pool of check() threads                           *)
(***************************************************************************)
\* the check() threads audit spawns
PoolThreads == 1..pa_threads

\* AuditError::handle: prints the finding, latches the flag if early
audit_error_handle(c, e) == IF e THEN TRUE ELSE c

\* check(): the cancel test at the top of the loop and lines.next()
PoolNext(t, readErr) ==
    /\ t \in PoolThreads
    /\ kpc[t] = "loop"
    /\ IF pa_cancel \/ (pa_lines = <<>> /\ ~readErr)
       THEN /\ ~readErr
            /\ kpc' = [kpc EXCEPT ![t] = "ok"]
            /\ UNCHANGED <<pa_lines, pa_cancel, kline>>
       ELSE IF readErr
       THEN /\ pa_cancel' = lib_cancel_on_err(pa_cancel, TRUE)
            /\ kpc' = [kpc EXCEPT ![t] = "err"]
            /\ UNCHANGED <<pa_lines, kline>>
       ELSE IF ~Head(pa_lines).sep
       THEN /\ pa_lines' = Tail(pa_lines)
            /\ kpc' = [kpc EXCEPT ![t] = "err"]
            /\ UNCHANGED <<pa_cancel, kline>>
       ELSE /\ pa_lines' = Tail(pa_lines)
            /\ kline' = [kline EXCEPT ![t] = Head(pa_lines)]
            /\ kpc' = [kpc EXCEPT ![t] = "hash"]
            /\ UNCHANGED pa_cancel
    /\ UNCHANGED <<fs, pa_early, pa_threads, audit_failed, pa_ret, printed_ok>>
    /\ UNCHANGED notPool

\* check(): hash_file on the line's path and the comparison of the digests
PoolHash(t, ioErr) ==
    /\ t \in PoolThreads
    /\ kpc[t] = "hash"
    /\ kline' = [kline EXCEPT ![t] = NoLine]
    /\ IF fs[kline[t].path] # "file"
       THEN /\ ~ioErr
            /\ audit_failed' = [audit_failed EXCEPT ![t] = TRUE]
            /\ pa_cancel' = audit_error_handle(pa_cancel, pa_early)
            /\ kpc' = [kpc EXCEPT ![t] = "loop"]
       ELSE IF pa_cancel
       THEN /\ ~ioErr
            /\ kpc' = [kpc EXCEPT ![t] = "ok"]
            /\ UNCHANGED <<pa_cancel, audit_failed>>
       ELSE IF ioErr
       THEN /\ pa_cancel' = lib_cancel_on_err(pa_cancel, TRUE)
            /\ kpc' = [kpc EXCEPT ![t] = "err"]
            /\ UNCHANGED audit_failed
       ELSE IF kline[t].hash # LiveHash
       THEN /\ audit_failed' = [audit_failed EXCEPT ![t] = TRUE]
            /\ pa_cancel' = audit_error_handle(pa_cancel, pa_early)
            /\ kpc' = [kpc EXCEPT ![t] = "loop"]
       ELSE /\ kpc' = [kpc EXCEPT ![t] = "loop"]
            /\ UNCHANGED <<pa_cancel, audit_failed>>
    /\ UNCHANGED <<fs, pa_lines, pa_early, pa_threads, pa_ret, printed_ok>>
    /\ UNCHANGED notPool

\* the results the joined handles give, in the order of the handles
JoinResults ==
    [t \in PoolThreads |-> IF kpc[t] = "err" THEN "Err"
                           ELSE IF audit_failed[t] THEN "true" ELSE "false"]

\* Iterator::find(|result| result.is_err()): the index of the first error (0
\* when there is none) and what is left of the iterator after the search
iter_find_err(rs) ==
    IF \E i \in 1..Len(rs) : rs[i] = "Err"
    THEN LET k == CHOOSE i \in 1..Len(rs) :
                      rs[i] = "Err" /\ \A j \in 1..(i - 1) : rs[j] # "Err"
         IN  [found |-> k, rest |-> SubSeq(rs, k + 1, Len(rs))]
    ELSE [found |-> 0, rest |-> <<>>]

\* Iterator::any(|result| result.unwrap()) on what is left of the iterator
iter_any_true(rest) == \E i \in 1..Len(rest) : rest[i] = "true"

\* audit(): joins the handles, returns the first error, or prints ok
PoolJoin ==
    /\ pa_ret = "none"
    /\ \A t \in PoolThreads : kpc[t] \in {"ok", "err"}
    /\ LET f == iter_find_err(JoinResults)
       IN  IF f.found # 0
           THEN /\ pa_ret' = "Err"
                /\ UNCHANGED printed_ok
           ELSE /\ pa_ret' = "Ok"
                /\ printed_ok' = ~iter_any_true(f.rest)
    /\ UNCHANGED <<fs, pa_lines, pa_cancel, pa_early, pa_threads, kpc, kline,
                   audit_failed>>
    /\ UNCHANGED notPool

\* the data lines of the hashes file lib.rs audits
PoolLines == {PoolLine(p, h, sep) : p \in {P_a, P_df}, h \in {<<"h1">>, <<"h2">>},
                                    sep \in BOOLEAN}

\* audit() after the header is read, its threads spawned
InitPool ==
    /\ CANCEL = FALSE
    /\ fs \in AuditFS
    /\ empty_dirs = FALSE
    /\ pa_lines \in BoundedSeq(PoolLines, MaxLines)
    /\ pa_cancel = FALSE
    /\ pa_early \in BOOLEAN
    /\ pa_threads \in 1..MaxThreads
    /\ kpc = [t \in Threads |-> IF t <= pa_threads THEN "loop" ELSE "idle"]
    /\ kline = [t \in Threads |-> NoLine]
    /\ audit_failed = [t \in Threads |-> FALSE]
    /\ pa_ret = "none"
    /\ printed_ok = FALSE
    /\ AuditIdle
    /\ EngineIdle
    /\ LibIdle
    /\ TextIdle
    /\ UnitIdle

NextPool ==
    \/ \E t \in Threads, e \in BOOLEAN : PoolNext(t, e)
    \/ \E t \in Threads, e \in BOOLEAN : PoolHash(t, e)
    \/ PoolJoin

SpecPool == InitPool /\ [][NextPool]_vars

\* C18: audit prints ok only if no check() thread reported an audit failure.
C18_OkOnlyWithoutAuditFailure ==
    (pa_ret = "Ok" /\ printed_ok) => \A t \in PoolThreads : ~audit_failed[t]

(***************************************************************************)
(* exec/mod.rs: Display for HashData and HashData::try_from_string         *)
(***************************************************************************)
\* str::split_once(ch): the text before and after the first ch
split_once(str, ch) ==
    IF \E i \in 1..Len(str) : str[i] = ch
    THEN LET k == CHOOSE i \in 1..Len(str) :
                      str[i] = ch /\ \A j \in 1..(i - 1) : str[j] # ch
         IN  [found |-> TRUE, left |-> SubSeq(str, 1, k - 1),
              right |-> SubSeq(str, k + 1, Len(str))]
    ELSE [found |-> FALSE, left |-> str, right |-> <<>>]

\* Display for HashData: "{path}|{digests or nothing}"
fmt(hd) == hd.path \o <<"|">> \o (IF hd.hash.some THEN hd.hash.s ELSE <<>>)

\* HashData::try_from_string(value, empty_dirs)
try_from_string(value, ed) ==
    LET sp == split_once(value, "|")
    IN  IF ~sp.found THEN ParseResult("FileFormat", <<>>, OptNone)
        ELSE IF sp.right = <<>>
        THEN IF ed THEN ParseResult("Ok", sp.left, OptNone)
             ELSE ParseResult("AuditEmptyDir", sp.left, OptNone)
        ELSE ParseResult("Ok", sp.left, Some(sp.right))

\* the handler writes the record as a line
RecWrite ==
    /\ rpc = "start"
    /\ rec_line' = fmt(rec_in)
    /\ rpc' = "written"
    /\ UNCHANGED <<empty_dirs, rec_in, rec_parsed, rec_line2>>
    /\ UNCHANGED notRec

\* read_next parses the line
RecParse ==
    /\ rpc = "written"
    /\ rec_parsed' = try_from_string(rec_line, empty_dirs)
    /\ rpc' = "parsed"
    /\ UNCHANGED <<empty_dirs, rec_in, rec_line, rec_line2>>
    /\ UNCHANGED notRec

\* the parsed record is written again
RecRewrite ==
    /\ rpc = "parsed"
    /\ rec_parsed.kind = "Ok"
    /\ rec_line2' = fmt([path |-> rec_parsed.path, hash |-> rec_parsed.hash])
    /\ rpc' = "rewritten"
    /\ UNCHANGED <<empty_dirs, rec_in, rec_line, rec_parsed>>
    /\ UNCHANGED notRec

\* the records the writer is handed: a path, and no digest (an empty
\* directory) or the digests joined by commas
RecPaths == BoundedSeq({"a", "/", "|"}, MaxPathLen) \ {<<>>}

RecHashes == {OptNone, Some(<<"1">>), Some(<<"1", ",", "2">>)}

InitRec ==
    /\ CANCEL = FALSE
    /\ fs \in {f \in FileSystems : \A p \in PathU : f[p] = "none"}
    /\ empty_dirs \in BOOLEAN
    /\ rec_in \in [path : RecPaths, hash : RecHashes]
    /\ rec_line = <<>>
    /\ rec_parsed = NoParse
    /\ rec_line2 = <<>>
    /\ rpc = "start"
    /\ AuditIdle
    /\ EngineIdle
    /\ LibIdle
    /\ PoolIdle
    /\ OutIdle
    /\ HdrIdle
    /\ UnitIdle

NextRec == RecWrite \/ RecParse \/ RecRewrite

SpecRec == InitRec /\ [][NextRec]_vars

\* C17: a written record, read back (an empty directory with empty_dirs),
\* gives the same path and digests, and written again the same line.
C17_RecordRoundTrip ==
    (rpc \in {"parsed", "rewritten"} /\ (rec_in.hash.some \/ empty_dirs)) =>
        /\ rec_parsed.kind = "Ok"
        /\ rec_parsed.path = rec_in.path
        /\ rec_parsed.hash = rec_in.hash
        /\ rpc = "rewritten" => rec_line2 = rec_line

(***************************************************************************)
(* exec/outfile.rs: OutFile, the writer of the hashes file                 *)
(***************************************************************************)
VERSION_STR == <<"v", "e", "r", "s", "i", "o", "n">>

HASH_ALGO_STR == <<"a", "l", "g", "o">>

TIME_START_STR == <<"t", "i", "m", "e", "_", "s", "t", "a", "r", "t">>

TIME_FINISH_STR == <<"t", "i", "m", "e", "_", "f", "i", "n", "i", "s", "h">>

NO_DATE_STR == <<"[", "N", "O", " ", "D", "A", "T", "E", "]">>

\* env!("CARGO_PKG_VERSION")
PKG_VERSION == <<"0", ".", "1", ".", "0">>

\* HashType::as_str
as_str(h) ==
    CASE h = "md5" -> <<"m", "d", "5">>
      [] h = "sha256" -> <<"s", "h", "a", "2", "5", "6">>
      [] h = "sha1" -> <<"s", "h", "a", "1">>
      [] h = "tiger" -> <<"t", "i", "g", "e", "r">>
      [] h = "whirlpool" -> <<"w", "h", "i", "r", "l", "p", "o", "o", "l">>

\* the texts current_time_string() returns: a date-time rounded to the
\* second, or NO_DATE_STR when the clock fails
TimeStrings == {<<"2", "0", "2", "4", "-", "0", "6", "-", "1", "9", "T", "1", "5", ":", "2", "2", ":", "4", "5">>,
                <<"2", "0", "2", "5", "-", "0", "1", "-", "0", "2", "T", "0", "3", ":", "0", "4", ":", "0", "5">>,
                NO_DATE_STR}

\* [T]::join(","): the texts in ts with a comma between them
RECURSIVE join(_)
join(ts) ==
    IF ts = <<>> THEN <<>>
    ELSE IF Len(ts) = 1 THEN ts[1]
    ELSE ts[1] \o <<",">> \o join(Tail(ts))

\* vec![b' '; n]
Spaces(n) == [i \in 1..n |-> " "]

\* the text OutFile::new formats: the header up to the blank after time_finish
HeaderPrefix(hash, time) ==
    VERSION_STR \o <<" ">> \o PKG_VERSION \o <<"\n">>
        \o HASH_ALGO_STR \o <<" ">> \o join([k \in 1..Len(hash) |-> as_str(hash[k])])
        \o <<"\n">>
        \o TIME_START_STR \o <<" ">> \o time \o <<" ", "-", " ">>
        \o TIME_FINISH_STR \o <<" ">>

\* the bytes OutFile::new writes: the prefix, the pad and the newline
Header(hash, time) == HeaderPrefix(hash, time) \o Spaces(Len(time)) \o <<"\n">>

\* reader.lines().nth(n - 1), then stream_position(): the offset after the
\* n-th newline, the end of the file when it has fewer lines
RECURSIVE LinesEnd(_, _)
LinesEnd(f, n) ==
    IF n = 0 THEN 0
    ELSE LET from == LinesEnd(f, n - 1)
         IN  IF \E i \in (from + 1)..Len(f) : f[i] = "\n"
             THEN CHOOSE i \in (from + 1)..Len(f) :
                      f[i] = "\n" /\ \A j \in (from + 1)..(i - 1) : f[j] # "\n"
             ELSE Len(f)

\* FileExt::write_at(bytes, at) on the content f
write_at(f, bytes, at) ==
    LET end == at + Len(bytes)
        n == IF end > Len(f) THEN end ELSE Len(f)
    IN  [i \in 1..n |-> IF at < i /\ i <= end THEN bytes[i - at]
                        ELSE IF i <= Len(f) THEN f[i] ELSE "NUL"]

\* finish that writes where the reader stopped, without stepping back
finish_cursor_no_backtrack(pos, n) == pos

\* finish: stream_position() - (time_str.len() + 1)
finish_cursor(pos, n) == pos - (n + 1)

\* into_inner that gives the file back and drops what the buffer holds
into_inner_discard(f, b) == [file |-> f, buf |-> <<>>]

\* BufWriter::into_inner: writes the buffer out and gives the file back
into_inner(f, b) == [file |-> f \o b, buf |-> <<>>]

\* the records handed to the writer
OutRecords == {[path |-> <<"a">>, hash |-> Some(<<"1">>)],
               [path |-> <<"d">>, hash |-> OptNone]}

\* HashHandler for &GuardedWriter: write_all of the record's line to the
\* BufWriter; an error fails the worker, and with it the run
OutHandle(hd, ioErr) ==
    /\ opc = "writing"
    /\ run_state = "running"
    /\ Len(handed) < MaxLines
    /\ IF ioErr
       THEN /\ run_state' = "err"
            /\ UNCHANGED <<buf, handed>>
       ELSE /\ buf' = buf \o fmt(hd) \o <<"\n">>
            /\ handed' = Append(handed, hd)
            /\ UNCHANGED run_state
    /\ UNCHANGED <<file, opc, pad, patch, before>>
    /\ UNCHANGED notOut

\* BufWriter writes its buffer to the file when it is full
OutFlush ==
    /\ opc = "writing"
    /\ buf # <<>>
    /\ file' = file \o buf
    /\ buf' = <<>>
    /\ UNCHANGED <<opc, run_state, pad, patch, before, handed>>
    /\ UNCHANGED notOut

\* the workers are joined: the run succeeded, or a worker failed
RunEnds(ok) ==
    /\ run_state = "running"
    /\ run_state' = (IF ok THEN "ok" ELSE "err")
    /\ UNCHANGED <<file, buf, opc, pad, patch, before, handed>>
    /\ UNCHANGED notOut

\* the create path calls writer.finish() on success
create_calls_finish == run_state = "ok"

\* the create path deletes the partial file on any error
create_deletes_file == run_state = "err"

\* OutFile::finish: takes the file out of the BufWriter, finds the end of
\* line 3 and writes the finish time before its newline
OutFinish(time, flushErr, writeErr) ==
    /\ opc = "writing"
    /\ create_calls_finish
    /\ IF flushErr
       THEN /\ ~writeErr
            /\ opc' = "finish_failed"
            /\ UNCHANGED <<file, buf, patch, before>>
       ELSE LET inner == into_inner(file, buf)
                pos == LinesEnd(inner.file, 3)
            IN  /\ buf' = inner.buf
                /\ before' = inner.file
                /\ IF pos < Len(time) + 1
                   THEN /\ ~writeErr
                        /\ opc' = "finish_failed"
                        /\ file' = inner.file
                        /\ UNCHANGED patch
                   ELSE IF writeErr
                   THEN /\ opc' = "finish_failed"
                        /\ file' = inner.file
                        /\ UNCHANGED patch
                   ELSE LET cursor == finish_cursor(pos, Len(time))
                        IN  /\ file' = write_at(inner.file, time, cursor)
                            /\ patch' = ByteRange(cursor, Len(time))
                            /\ opc' = "closed"
    /\ UNCHANGED <<run_state, pad, handed>>
    /\ UNCHANGED notOut

\* the create path after a failed run: the output file is removed
OutDelete ==
    /\ opc = "writing"
    /\ create_deletes_file
    /\ opc' = "deleted"
    /\ file' = <<>>
    /\ buf' = <<>>
    /\ UNCHANGED <<run_state, pad, patch, before, handed>>
    /\ UNCHANGED notOut

\* OutFile::new succeeded: the header is in the BufWriter, the workers start
InitOut ==
    /\ CANCEL = FALSE
    /\ fs \in {f \in FileSystems : \A p \in PathU : f[p] = "none"}
    /\ empty_dirs = FALSE
    /\ \E hash \in {SubSeq(AlgoList, 1, n) : n \in 1..MaxAlgos}, time \in TimeStrings :
          /\ buf = Header(hash, time)
          /\ pad = ByteRange(Len(HeaderPrefix(hash, time)), Len(time))
    /\ file = <<>>
    /\ opc = "writing"
    /\ run_state = "running"
    /\ patch = ByteRange(0, 0)
    /\ before = <<>>
    /\ handed = <<>>
    /\ AuditIdle
    /\ EngineIdle
    /\ LibIdle
    /\ PoolIdle
    /\ RecIdle
    /\ HdrIdle
    /\ UnitIdle

NextOut ==
    \/ \E hd \in OutRecords, e \in BOOLEAN : OutHandle(hd, e)
    \/ OutFlush
    \/ \E ok \in BOOLEAN : RunEnds(ok)
    \/ \E time \in TimeStrings, fe \in BOOLEAN, we \in BOOLEAN : OutFinish(time, fe, we)
    \/ OutDelete

SpecOut == InitOut /\ [][NextOut]_vars

\* the bytes after header line 3: the data lines
DataPart(f) == SubSeq(f, LinesEnd(f, 3) + 1, Len(f))

\* the lines of the records in hs, each with its newline
RECURSIVE DataBytes(_)
DataBytes(hs) ==
    IF hs = <<>> THEN <<>>
    ELSE fmt(Head(hs)) \o <<"\n">> \o DataBytes(Tail(hs))

\* C14: finish leaves the length of the file and every byte outside header
\* line 3 as they were.
C14_FinishKeepsOtherBytes ==
    opc = "closed" =>
        /\ Len(file) = Len(before)
        /\ \A i \in 1..Len(before) :
              (i <= LinesEnd(before, 2) \/ i > LinesEnd(before, 3)) =>
                  file[i] = before[i]

C14_Witness ==
    /\ opc = "closed"
    /\ Len(handed) = 2
    /\ patch.len # pad.len
    /\ file # before

\* C15: the bytes finish writes are exactly the pad OutFile::new reserved.
C15_PatchIsExactlyThePad ==
    opc = "closed" => patch = pad

\* C16: when the finish time is patched the run has succeeded, the buffer is
\* written out, and the file holds, after the header, exactly the lines of the
\* records handed to the writer, before the patch and ever after.
C16_PatchIsLastWrite ==
    opc = "closed" =>
        /\ run_state = "ok"
        /\ buf = <<>>
        /\ DataPart(before) = DataBytes(handed)
        /\ DataPart(file) = DataBytes(handed)
        /\ file = write_at(before, SubSeq(file, patch.at + 1, patch.at + patch.len),
                           patch.at)

C16_Witness ==
    /\ opc = "closed"
    /\ run_state = "ok"
    /\ Len(handed) = 2
    /\ patch = pad
    /\ handed[1] # handed[2]

(***************************************************************************)
(* exec/checker.rs: load_check_file, the reader of the header              *)
(***************************************************************************)
\* char::is_whitespace, on the characters a header holds
is_whitespace(c) == c \in {" ", "\t"}

\* str::split_once(char::is_whitespace)
split_once_ws(str) ==
    IF \E i \in 1..Len(str) : is_whitespace(str[i])
    THEN LET k == CHOOSE i \in 1..Len(str) :
                      is_whitespace(str[i]) /\ \A j \in 1..(i - 1) : ~is_whitespace(str[j])
         IN  [found |-> TRUE, left |-> SubSeq(str, 1, k - 1),
              right |-> SubSeq(str, k + 1, Len(str))]
    ELSE [found |-> FALSE, left |-> str, right |-> <<>>]

\* str::rsplit_once(char::is_whitespace)
rsplit_once_ws(str) ==
    IF \E i \in 1..Len(str) : is_whitespace(str[i])
    THEN LET k == CHOOSE i \in 1..Len(str) :
                      is_whitespace(str[i])
                          /\ \A j \in (i + 1)..Len(str) : ~is_whitespace(str[j])
         IN  [found |-> TRUE, left |-> SubSeq(str, 1, k - 1),
              right |-> SubSeq(str, k + 1, Len(str))]
    ELSE [found |-> FALSE, left |-> str, right |-> <<>>]

\* the text pat starts at position i of str
MatchAt(str, pat, i) ==
    i + Len(pat) <= Len(str) + 1 /\ SubSeq(str, i, i + Len(pat) - 1) = pat

\* str::split_once(pat) for a text pat
split_once_str(str, pat) ==
    IF \E i \in 1..Len(str) : MatchAt(str, pat, i)
    THEN LET k == CHOOSE i \in 1..Len(str) :
                      MatchAt(str, pat, i) /\ \A j \in 1..(i - 1) : ~MatchAt(str, pat, j)
         IN  [found |-> TRUE, left |-> SubSeq(str, 1, k - 1),
              right |-> SubSeq(str, k + Len(pat), Len(str))]
    ELSE [found |-> FALSE, left |-> str, right |-> <<>>]

\* str::split(','): the texts between the commas
RECURSIVE split_comma(_)
split_comma(str) ==
    LET sp == split_once(str, ",")
    IN  IF sp.found THEN <<sp.left>> \o split_comma(sp.right) ELSE <<str>>

\* char::to_lowercase on ASCII
to_lower(c) ==
    CASE c = "A" -> "a"
      [] c = "B" -> "b"
      [] c = "C" -> "c"
      [] c = "D" -> "d"
      [] c = "E" -> "e"
      [] c = "F" -> "f"
      [] c = "G" -> "g"
      [] c = "H" -> "h"
      [] c = "I" -> "i"
      [] c = "J" -> "j"
      [] c = "K" -> "k"
      [] c = "L" -> "l"
      [] c = "M" -> "m"
      [] c = "N" -> "n"
      [] c = "O" -> "o"
      [] c = "P" -> "p"
      [] c = "Q" -> "q"
      [] c = "R" -> "r"
      [] c = "S" -> "s"
      [] c = "T" -> "t"
      [] c = "U" -> "u"
      [] c = "V" -> "v"
      [] c = "W" -> "w"
      [] c = "X" -> "x"
      [] c = "Y" -> "y"
      [] c = "Z" -> "z"
      [] OTHER -> c

\* to_lowercase that leaves the text as it is
to_lowercase_keep(str) == str

\* str::to_lowercase
to_lowercase(str) == [i \in 1..Len(str) |-> to_lower(str[i])]

\* the tokens the message of from_str lists
OptionsListed == {as_str(AlgoList[k]) : k \in 1..Len(AlgoList)}

\* HashType::from_str that compares the token as it is written
from_str_case_sensitive(tok) ==
    IF \E k \in 1..Len(AlgoList) : as_str(AlgoList[k]) = tok
    THEN ParsedType(TRUE,
                    AlgoList[CHOOSE k \in 1..Len(AlgoList) : as_str(AlgoList[k]) = tok],
                    <<>>, {})
    ELSE ParsedType(FALSE, "", tok, OptionsListed)

\* HashType::from_str
from_str(tok) ==
    LET low == to_lowercase(tok)
    IN  IF \E k \in 1..Len(AlgoList) : as_str(AlgoList[k]) = low
        THEN ParsedType(TRUE,
                        AlgoList[CHOOSE k \in 1..Len(AlgoList) : as_str(AlgoList[k]) = low],
                        <<>>, {})
        ELSE ParsedType(FALSE, "", tok, OptionsListed)

\* the time values a header line may hold: the date-times and NO_DATE_STR of
\* TimeStrings, a date-time with no such month, and the blank pad of a file
\* that was never finished
BadDate == <<"2", "0", "2", "4", "-", "1", "3", "-", "1", "9", "T", "1", "5", ":", "2", "2", ":", "4", "5">>

TimeValues == TimeStrings \cup {BadDate, Spaces(Len(NO_DATE_STR))}

\* str::parse::<jiff::civil::Date>: accepts a date-time that exists
parse_date(str) == str \in TimeStrings \ {NO_DATE_STR}

\* one side of the time line: `keyword value`, the value NO_DATE_STR or a date
time_part_ok(str, keyword) ==
    LET sp == split_once_ws(str)
    IN  /\ sp.found
        /\ sp.left = keyword
        /\ sp.right = NO_DATE_STR \/ parse_date(sp.right)

\* the algorithms of the tokens, up to the first that does not parse
RECURSIVE hash_list(_)
hash_list(toks) ==
    IF toks = <<>> THEN [ok |-> TRUE, list |-> <<>>]
    ELSE LET h == from_str(Head(toks))
             rest == hash_list(Tail(toks))
         IN  IF ~h.ok THEN [ok |-> FALSE, list |-> <<>>]
             ELSE [ok |-> rest.ok, list |-> <<h.type>> \o rest.list]

\* load_check_file on the lines of the file; the read of line readErr fails
load_check_file(lines, readErr) ==
    IF readErr = 1 THEN LoadResult("ReadLine", <<>>, FALSE)
    ELSE IF Len(lines) < 1 THEN LoadResult("FileFormat", <<>>, FALSE)
    ELSE LET v == rsplit_once_ws(lines[1])
             warn == v.right # PKG_VERSION
         IN  IF ~(v.found /\ v.left = VERSION_STR) THEN LoadResult("FileFormat", <<>>, FALSE)
             ELSE IF readErr = 2 THEN LoadResult("ReadLine", <<>>, warn)
             ELSE IF Len(lines) < 2 THEN LoadResult("FileFormat", <<>>, warn)
             ELSE LET a == split_once_ws(lines[2])
                      hl == hash_list(split_comma(a.right))
                  IN  IF ~(a.found /\ a.left = HASH_ALGO_STR)
                      THEN LoadResult("FileFormat", <<>>, warn)
                      ELSE IF ~hl.ok THEN LoadResult("InvalidHash", <<>>, warn)
                      ELSE IF readErr = 3 THEN LoadResult("ReadLine", <<>>, warn)
                      ELSE IF Len(lines) < 3 THEN LoadResult("FileFormat", <<>>, warn)
                      ELSE LET t == split_once_str(lines[3], <<" ", "-", " ">>)
                           IN  IF /\ t.found
                                  /\ time_part_ok(t.left, TIME_START_STR)
                                  /\ time_part_ok(t.right, TIME_FINISH_STR)
                               THEN LoadResult("Ok", hl.list, warn)
                               ELSE LoadResult("FileFormat", <<>>, warn)

\* the lines a header with the parts h is written as
HeaderLines(h) ==
    LET l1 == h.kw1 \o <<" ">> \o h.ver
        l2 == h.kw2 \o <<" ">> \o join(h.toks)
        l3 == h.kw3 \o <<" ">> \o h.t1 \o h.sep \o h.kw4 \o <<" ">> \o h.t2
    IN  SubSeq(<<l1, l2, l3>>, 1, h.n)

\* the headers load_check_file is given: any number of lines, right and
\* wrong keywords, this and another version, known tokens in either case and
\* an unknown one, good and bad time values, with and without the ` - `
Headers ==
    {HeaderParts(n, kw1, ver, kw2, toks, kw3, t1, sep, kw4, t2) :
        n \in 0..3,
        kw1 \in {VERSION_STR, HASH_ALGO_STR},
        ver \in {PKG_VERSION, <<"9", ".", "9", ".", "9">>},
        kw2 \in {HASH_ALGO_STR, VERSION_STR},
        toks \in {<<as_str("sha256")>>, <<as_str("sha256"), <<"M", "D", "5">>>>,
                  <<as_str("sha256"), <<"c", "r", "c", "3", "2">>>>},
        kw3 \in {TIME_START_STR, TIME_FINISH_STR},
        t1 \in {NO_DATE_STR, BadDate} \cup (TimeStrings \ {NO_DATE_STR}),
        sep \in {<<" ", "-", " ">>, <<" ">>},
        kw4 \in {TIME_FINISH_STR, TIME_START_STR},
        t2 \in TimeValues}

\* load_check_file runs on the file
HdrLoad ==
    /\ hpc = "start"
    /\ hdr_result' = load_check_file(hdr_lines, hdr_read_err)
    /\ hpc' = "done"
    /\ UNCHANGED <<hdr_in, hdr_lines, hdr_read_err>>
    /\ UNCHANGED notHdr

InitHdr ==
    /\ CANCEL = FALSE
    /\ fs \in {f \in FileSystems : \A p \in PathU : f[p] = "none"}
    /\ empty_dirs = FALSE
    /\ hdr_in \in Headers
    /\ hdr_lines = HeaderLines(hdr_in)
    /\ hdr_read_err \in 0..3
    /\ hdr_result = NoLoad
    /\ hpc = "start"
    /\ AuditIdle
    /\ EngineIdle
    /\ LibIdle
    /\ PoolIdle
    /\ RecIdle
    /\ OutIdle
    /\ UnitIdle

NextHdr == HdrLoad

SpecHdr == InitHdr /\ [][NextHdr]_vars

\* two texts are the same but for the case of their letters
EqIgnoreCase(a, b) ==
    Len(a) = Len(b) /\ \A i \in 1..Len(a) : to_lower(a[i]) = to_lower(b[i])

\* the token names one of the five algorithms
KnownToken(tok) == \E k \in 1..Len(AlgoList) : EqIgnoreCase(tok, as_str(AlgoList[k]))

\* the algorithm a known token names
TokenType(tok) == AlgoList[CHOOSE k \in 1..Len(AlgoList) : EqIgnoreCase(tok, as_str(AlgoList[k]))]

\* the header grammar, line by line, on the parts of a header
Line1Conforms(h) == h.n >= 1 /\ h.kw1 = VERSION_STR
Line2Keyword(h) == h.n >= 2 /\ h.kw2 = HASH_ALGO_STR
Line2Tokens(h) == \A k \in 1..Len(h.toks) : KnownToken(h.toks[k])
Line3Conforms(h) ==
    /\ h.n >= 3
    /\ h.kw3 = TIME_START_STR
    /\ h.kw4 = TIME_FINISH_STR
    /\ h.sep = <<" ", "-", " ">>
    /\ h.t1 \in TimeStrings
    /\ h.t2 \in TimeStrings

Conforming(h) ==
    Line1Conforms(h) /\ Line2Keyword(h) /\ Line2Tokens(h) /\ Line3Conforms(h)

\* the first deviation of the header, in line order, is a token of line 2
\* that names no algorithm
TokenDeviatesFirst(h) == Line1Conforms(h) /\ Line2Keyword(h) /\ ~Line2Tokens(h)

\* load_check_file has returned and no read of a line failed
Loaded == hpc = "done" /\ hdr_read_err = 0

\* C20 as stated: every header that deviates from the grammar fails with
\* FileFormat, every conforming header loads.
C20_EveryDeviationIsFileFormat ==
    Loaded =>
        /\ Conforming(hdr_in) => hdr_result.kind = "Ok"
        /\ ~Conforming(hdr_in) => hdr_result.kind = "FileFormat"

\* C20: load_check_file fails for every header that deviates from the
\* grammar: with InvalidHash when the first deviation in line order is an
\* algorithm token that names no algorithm, with FileFormat for every other
\* deviation (a missing line, a wrong keyword, a malformed time line).  It
\* succeeds for every conforming header and returns its algorithms in order;
\* a version other than the program's own changes the outcome in nothing but
\* the warning.
C20_DeviationsFail ==
    /\ Loaded =>
        /\ Conforming(hdr_in) =>
              /\ hdr_result.kind = "Ok"
              /\ hdr_result.hashes = [k \in 1..Len(hdr_in.toks) |-> TokenType(hdr_in.toks[k])]
        /\ (~Conforming(hdr_in) /\ TokenDeviatesFirst(hdr_in)) =>
              hdr_result.kind = "InvalidHash"
        /\ (~Conforming(hdr_in) /\ ~TokenDeviatesFirst(hdr_in)) =>
              hdr_result.kind = "FileFormat"
        /\ hdr_result.warning = (Line1Conforms(hdr_in) /\ hdr_in.ver # PKG_VERSION)
    /\ (hpc = "done" /\ hdr_result.kind = "ReadLine") => hdr_read_err # 0

\* a header whose only deviation is an unknown token was loaded, and so was
\* reported as InvalidHash
C20_Witness ==
    /\ Loaded
    /\ Line3Conforms(hdr_in)
    /\ TokenDeviatesFirst(hdr_in)
    /\ hdr_in.ver # PKG_VERSION
    /\ hdr_result.kind = "InvalidHash"
    /\ hdr_result.warning

(***************************************************************************)
(* exec/mod.rs: Queue::new, and the run it stands before                   *)
(***************************************************************************)
\* Path::metadata: fails for a path that does not exist
metadata_ok(f, p) == p \in DOMAIN f /\ f[p] # "none"

\* the loop of Queue::new over the rest of the input, q the queue so far
RECURSIVE new_loop(_, _, _, _)
RECURSIVE new_loop_take_dirs(_, _, _, _)
\* Queue::new that takes every directory, whatever recursive says
new_loop_take_dirs(f, input, rec, q) ==
    IF input = <<>> THEN NewResult("Ok", q, <<>>)
    ELSE IF ~metadata_ok(f, Head(input)) THEN NewResult("Io", <<>>, Head(input))
    ELSE new_loop_take_dirs(f, Tail(input), rec, Append(q, Head(input)))

new_loop(f, input, rec, q) ==
    IF input = <<>> THEN NewResult("Ok", q, <<>>)
    ELSE IF ~metadata_ok(f, Head(input)) THEN NewResult("Io", <<>>, Head(input))
    ELSE IF is_dir(f, Head(input)) /\ ~rec THEN NewResult("IsDir", <<>>, Head(input))
    ELSE new_loop(f, Tail(input), rec, Append(q, Head(input)))

\* Queue::new(input, recursive)
Queue_new(f, input, rec) == new_loop(f, input, rec, <<>>)

\* the caller builds the Queue and starts the workers on it; when Queue::new
\* fails it returns the error and no worker is started
Construct ==
    /\ qnew = NoNew
    /\ \A w \in Workers : wpc[w] = "new"
    /\ qnew' = Queue_new(fs, seeds, recursive)
    /\ IF qnew'.kind = "Ok"
       THEN /\ queue' = qnew'.queue
            /\ pushed' = PathCounts(qnew'.queue)
            /\ wpc' = [w \in Workers |-> "pop"]
       ELSE /\ queue' = <<>>
            /\ pushed' = PathCounts(<<>>)
            /\ wpc' = [w \in Workers |-> "err"]
    /\ UNCHANGED <<varsShared, recursive, hashes, seeds, qlock, whd, walgo, wchunk,
                   wdir, wempty, wsaw, sink, lateRecord, seenRecord, abandoned>>
    /\ UNCHANGED popped
    /\ UNCHANGED notNew

\* the caller is given any seeds: files, directories, paths that do not
\* exist, the same path twice
InitWalk ==
    /\ CANCEL = FALSE
    /\ fs \in FileSystems
    /\ empty_dirs \in BOOLEAN
    /\ hashes = SubSeq(AlgoList, 1, 1)
    /\ seeds \in {sd \in BoundedSeq(SeedPaths, MaxSeeds) : Len(sd) >= 1}
    /\ recursive \in BOOLEAN
    /\ qnew = NoNew
    /\ queue = <<>>
    /\ qlock = 0
    /\ wpc = [w \in Workers |-> "new"]
    /\ whd = [w \in Workers |-> NoData]
    /\ walgo = [w \in Workers |-> 0]
    /\ wchunk = [w \in Workers |-> 0]
    /\ wdir = [w \in Workers |-> <<>>]
    /\ wempty = [w \in Workers |-> FALSE]
    /\ wsaw = [w \in Workers |-> FALSE]
    /\ sink = <<>>
    /\ lateRecord = FALSE
    /\ seenRecord = FALSE
    /\ abandoned = {}
    /\ pushed = PathCounts(<<>>)
    /\ popped = PathCounts(<<>>)
    /\ AuditIdle
    /\ LibIdle
    /\ PoolIdle
    /\ TextIdle
    /\ TokIdle
    /\ CmpIdle
    /\ RdIdle
    /\ ApIdle
    /\ MoreIdle

NextWalk ==
    \/ Construct
    \/ NextEngine

SpecWalk == InitWalk /\ [][NextWalk]_vars

\* some seed is a directory / every seed is a file
AnyDirSeed == \E i \in 1..Len(seeds) : is_dir(fs, seeds[i])
OnlyFileSeeds == \A i \in 1..Len(seeds) : fs[seeds[i]] = "file"
AllSeedsExist == \A i \in 1..Len(seeds) : metadata_ok(fs, seeds[i])

\* the first seed that is a directory, and the seeds before it exist
FirstDirSeed(i) ==
    /\ is_dir(fs, seeds[i])
    /\ \A j \in 1..(i - 1) : fs[seeds[j]] = "file"

\* Queue::new has returned
Constructed == qnew # NoNew

DirRecords == {i \in 1..Len(sink) : sink[i].hash = None \/ is_dir(fs, sink[i].path)}

\* a worker is inside push_dir on d, part of the entries are queued, and the
\* flag is set: the next entry makes push_dir return
CancelledInside(d) ==
    \E w \in Workers :
        /\ wpc[w] = "pushdir"
        /\ whd[w].path = d
        /\ wdir[w] # <<>>
        /\ Len(wdir[w]) < Len(Entries(fs, d))
        /\ CANCEL

\* C22: a directory produces a record only when it has no entries and
\* empty_dirs is set; with empty_dirs unset no directory has a record, and a
\* directory with an entry never has one, cancelled or not.
C22_DirRecordOnlyIfEmptyAndOptedIn ==
    \A i \in DirRecords :
        /\ sink[i].hash = None
        /\ is_dir(fs, sink[i].path)
        /\ empty_dirs
        /\ Entries(fs, sink[i].path) = <<>>

\* the run has ended and the record of an empty directory is in the sink
C22_Witness ==
    /\ DirRecords # {}
    /\ empty_dirs
    /\ \A w \in Workers : wpc[w] \in {"ok", "err"}

\* the flag was latched while a directory with entries was being expanded
C22_WitnessCancelled == empty_dirs /\ CancelledInside(P_d)

(***************************************************************************)
(* hashing.rs: HashType::as_str and HashType::from_str                     *)
(***************************************************************************)
\* the capital of a letter of the five tokens
to_upper(c) ==
    CASE c = "m" -> "M"
      [] c = "d" -> "D"
      [] c = "s" -> "S"
      [] c = "h" -> "H"
      [] c = "a" -> "A"
      [] c = "t" -> "T"
      [] c = "i" -> "I"
      [] c = "g" -> "G"
      [] c = "e" -> "E"
      [] c = "r" -> "R"
      [] c = "w" -> "W"
      [] c = "l" -> "L"
      [] c = "p" -> "P"
      [] c = "o" -> "O"
      [] OTHER -> c

\* the token in every mix of small and capital letters
RECURSIVE CaseVariants(_)
CaseVariants(t) ==
    IF t = <<>> THEN {<<>>}
    ELSE {<<c>> \o v : c \in {Head(t), to_upper(Head(t))}, v \in CaseVariants(Tail(t))}

\* texts that are none of the five tokens in any case
OtherTexts ==
    {<<>>,
     <<"c", "r", "c", "3", "2">>,
     <<"s", "h", "a">>,
     <<"s", "h", "a", "2">>,
     <<"s", "h", "a", "2", "5">>,
     <<"s", "h", "a", "2", "5", "6", "6">>,
     <<"s", "h", "a", "5", "1", "2">>,
     <<"m", "d", "4">>,
     <<"m", "d", "5", "5">>,
     <<"5", "d", "m">>,
     <<"t", "i", "g", "r", "e">>,
     <<"t", "i", "g", "e", "r", "2">>,
     <<"w", "h", "i", "r", "l">>,
     <<"p", "o", "o", "l">>,
     <<"M", "d", " ", "5">>,
     <<" ", "m", "d", "5">>,
     <<"m", "d", "5", " ">>,
     <<"s", "h", "a", "-", "1">>,
     <<"s", "h", "a", "_", "2", "5", "6">>,
     <<"S", "H", "A", "3">>}

\* the texts from_str is given
TokenTexts == UNION {CaseVariants(as_str(AlgoList[k])) : k \in 1..Len(AlgoList)} \cup OtherTexts

\* from_str parses the text
TokParse ==
    /\ tok_pc = "start"
    /\ tok_res' = from_str(tok_in)
    /\ tok_pc' = "parsed"
    /\ UNCHANGED <<tok_in, tok_back>>
    /\ UNCHANGED notTok

\* as_str writes the parsed algorithm
TokAsStr ==
    /\ tok_pc = "parsed"
    /\ tok_res.ok
    /\ tok_back' = as_str(tok_res.type)
    /\ tok_pc' = "written"
    /\ UNCHANGED <<tok_in, tok_res>>
    /\ UNCHANGED notTok

RunIdle == AuditIdle /\ EngineIdle /\ LibIdle /\ PoolIdle /\ TextIdle

InitTok ==
    /\ CANCEL = FALSE
    /\ fs \in {f \in FileSystems : \A p \in PathU : f[p] = "none"}
    /\ empty_dirs = FALSE
    /\ tok_in \in TokenTexts
    /\ tok_res = NoType
    /\ tok_back = <<>>
    /\ tok_pc = "start"
    /\ RunIdle
    /\ NewIdle
    /\ CmpIdle
    /\ RdIdle
    /\ ApIdle
    /\ MoreIdle

NextTok == TokParse \/ TokAsStr

SpecTok == InitTok /\ [][NextTok]_vars

\* the text is one of the five tokens, in any case
IsToken(t) == \E k \in 1..Len(AlgoList) : t \in CaseVariants(as_str(AlgoList[k]))

\* C23: the token of as_str parses back to its algorithm, a token parses to
\* the same algorithm in every letter case, and every text that is none of
\* the five tokens fails with a message that names it and lists the tokens.
C23_TokenRoundTrip ==
    /\ tok_pc \in {"parsed", "written"} =>
          /\ \A k \in 1..Len(AlgoList) :
                tok_in \in CaseVariants(as_str(AlgoList[k])) =>
                    (tok_res.ok /\ tok_res.type = AlgoList[k])
          /\ ~IsToken(tok_in) =>
                /\ ~tok_res.ok
                /\ tok_res.msg.invalid = tok_in
                /\ tok_res.msg.options = OptionsListed
    /\ tok_pc = "written" =>
          /\ EqIgnoreCase(tok_back, tok_in)
          /\ tok_back \in OptionsListed
          /\ from_str(tok_back) = tok_res

\* a token written with capitals was parsed and written back in small letters
C23_Witness ==
    /\ tok_pc = "written"
    /\ tok_in = <<"W", "h", "i", "r", "l", "P", "o", "o", "l">>
    /\ tok_res.type = "whirlpool"
    /\ tok_back = as_str("whirlpool")

(***************************************************************************)
(* Properties of the comparator's search                                   *)
(***************************************************************************)
\* the findings a comparison with the live record at path p has caused
ComparisonFindings(p) ==
    {i \in 1..Len(findings) : findings[i].path = p /\ findings[i].kind # "NotFound"}

\* C24: search_reader pulls from the manifest for a live record only if the
\* backlog scan caused no finding for it, and no live record causes more
\* than one finding.
C24_ReaderOnlyIfScanUnmatched ==
    /\ (cpc = "reader" /\ ~CANCEL) => ComparisonFindings(cur.path) = {}
    /\ \A p \in AuditPaths : Cardinality(ComparisonFindings(p)) <= 1

\* this step printed a finding of the kind k
Printed(k) ==
    /\ Len(findings') = Len(findings) + 1
    /\ findings'[Len(findings')].kind = k

\* C25: on an inconsistent pair the manifest record B leaves the pending
\* records if and only if it is the file side (EmptyDir is printed); as the
\* directory side (Extra is printed) it stays in the backlog.  B is the
\* front of the backlog in search_backlog, the line just read in
\* search_reader.
C25_FileSideRemoved ==
    [][/\ (cpc = "backlog" /\ Printed("EmptyDir")) => backlog' = Tail(backlog)
       /\ (cpc = "backlog" /\ Printed("Extra")) =>
              backlog' = Append(Tail(backlog), Head(backlog))
       /\ (cpc = "reader" /\ reader # <<>> /\ Printed("EmptyDir")) => backlog' = backlog
       /\ (cpc = "reader" /\ reader # <<>> /\ Printed("Extra")) =>
              backlog' = Append(backlog, Head(reader))]_vars

\* how many records of the sequence rs stand at path p
CountAt(rs, p) == Cardinality({i \in 1..Len(rs) : rs[i].path = p})

\* how many times NotFound(p) was printed
NotFoundCount(p) ==
    Cardinality({i \in 1..Len(findings) : findings[i] = Finding("NotFound", p)})

\* check() returned its result and the flag was never latched
EndedUncancelled == cpc = "done" /\ ~CANCEL /\ result \in {"true", "false"}

\* C26: in an audit that is never cancelled every manifest record ends in
\* exactly one way: a comparison with a live record consumed it (match,
\* Mismatch or inconsistent pair) or NotFound is printed for it once.
C26_ConsumedOrNotFoundOnce ==
    EndedUncancelled =>
        \A p \in AuditPaths :
            CountAt(consumed, p) + NotFoundCount(p) = CountAt(manifest, p)

\* the comparator and the workers keep running: a blocked recv() returns when
\* a record arrives or the last sender is dropped, and a worker that sees the
\* flag returns
SpecAuditFair == SpecAudit /\ WF_vars(NextAudit)

\* C27: once the flag is set the comparator prints no finding, neither
\* NotFound for what is left in the backlog or unread nor any other, and it
\* reaches Done.
C27_CancelledComparatorEmitsNothing ==
    /\ [][CANCEL => findings' = findings]_vars
    /\ CANCEL ~> cpc = "done"

\* the comparator is Done after the flag was latched with records left in
\* the backlog, and the last finding is the one that latched the flag
C27_Witness ==
    /\ cpc = "done"
    /\ CANCEL
    /\ early
    /\ Len(manifest) = 2
    /\ Len(findings) = 1
    /\ findings[1].kind # "NotFound"
    /\ consumed = <<>>
    /\ scan0 = <<>>
    /\ reader = <<>>

(***************************************************************************)
(* exec/checker.rs: compare_paths on paths of any depth                    *)
(***************************************************************************)
\* the paths compared: up to MaxDepth components, and the empty path
CmpPaths == BoundedSeq({"d", "e"}, MaxDepth)

\* a is a proper ancestor of b
ProperAncestor(a, b) == Len(a) < Len(b) /\ SubSeq(b, 1, Len(a)) = a

\* the kinds the two paths can have on one file system: a path that exists
\* lies in directories, and the empty path names nothing
CmpKinds(m, l) ==
    {f \in [{m, l} -> {"none", "file", "dir"}] :
        /\ \A p \in {m, l} : p = <<>> => f[p] = "none"
        /\ \A p, q \in {m, l} :
              (p # <<>> /\ ProperAncestor(p, q) /\ f[q] # "none") => f[p] = "dir"}

\* compare_paths runs on the two paths
CmpRun ==
    /\ cmp_pc = "start"
    /\ cmp_res' = compare_paths(cmp_fs, cmp_m, cmp_l)
    /\ cmp_pc' = "done"
    /\ UNCHANGED <<cmp_fs, cmp_m, cmp_l>>
    /\ UNCHANGED notCmp

InitCmp ==
    /\ CANCEL = FALSE
    /\ fs \in {f \in FileSystems : \A p \in PathU : f[p] = "none"}
    /\ empty_dirs = FALSE
    /\ cmp_m \in CmpPaths
    /\ cmp_l \in CmpPaths
    /\ cmp_fs \in CmpKinds(cmp_m, cmp_l)
    /\ cmp_res = "none"
    /\ cmp_pc = "start"
    /\ RunIdle
    /\ NewIdle
    /\ TokIdle
    /\ RdIdle
    /\ ApIdle
    /\ MoreIdle

NextCmp == CmpRun

SpecCmp == InitCmp /\ [][NextCmp]_vars

\* b lies immediately in a
ChildOf(b, a) == \E c \in {"d", "e"} : b = Append(a, c)

\* C28: compare_paths(m, l) is a match iff m = l, Extra iff m is a directory,
\* l is not and l lies immediately in m, EmptyDir iff m is no directory, l is
\* one and m lies immediately in l, and unrelated in every other case, so
\* also when one path is a deeper ancestor of the other.
C28_ImmediateParentOnly ==
    cmp_pc = "done" =>
        LET mDir == cmp_fs[cmp_m] = "dir"
            lDir == cmp_fs[cmp_l] = "dir"
            extra == mDir /\ ~lDir /\ ChildOf(cmp_l, cmp_m)
            emptyDir == ~mDir /\ lDir /\ ChildOf(cmp_m, cmp_l)
        IN  /\ cmp_res = "Ok" <=> cmp_m = cmp_l
            /\ cmp_res = "Extra" <=> extra
            /\ cmp_res = "EmptyDir" <=> emptyDir
            /\ cmp_res = "Unrelated" <=> (cmp_m # cmp_l /\ ~extra /\ ~emptyDir)
            /\ ((ProperAncestor(cmp_m, cmp_l) /\ ~ChildOf(cmp_l, cmp_m))
                  \/ (ProperAncestor(cmp_l, cmp_m) /\ ~ChildOf(cmp_m, cmp_l)))
                  => cmp_res = "Unrelated"

\* a directory was compared with a file two levels below it
C28_Witness ==
    /\ cmp_pc = "done"
    /\ cmp_m = <<"d">>
    /\ cmp_l = <<"d", "e", "d">>
    /\ cmp_fs[cmp_m] = "dir"
    /\ cmp_fs[cmp_l] = "file"
    /\ cmp_res = "Unrelated"

(***************************************************************************)
(* exec/checker.rs: Checker::read_next, the streaming reader               *)
(***************************************************************************)
\* Checker::read_next: the next line of the reader, parsed; readErr says the
\* read of the line fails
read_next(rd, ed, readErr) ==
    IF rd = <<>> THEN ParseResult("End", <<>>, OptNone)
    ELSE IF readErr THEN ParseResult("ReadLine", <<>>, OptNone)
    ELSE try_from_string(Head(rd), ed)

\* the comparator asks for the next record; it stops at the end of the file
\* and at the first error
RdNext ==
    /\ rd_next.kind \in {"none", "Ok"}
    /\ rd_next' = read_next(rd_reader, empty_dirs, rd_fail = rd_count + 1)
    /\ rd_line' = (IF rd_reader = <<>> THEN <<>> ELSE Head(rd_reader))
    /\ rd_reader' = (IF rd_reader = <<>> THEN <<>> ELSE Tail(rd_reader))
    /\ rd_count' = rd_count + 1
    /\ UNCHANGED <<empty_dirs, rd_fail>>
    /\ UNCHANGED notRd

\* the data lines of a hashes file: any text of path characters, bars and
\* digest characters
DataLines == BoundedSeq({"a", "|", "1"}, MaxPathLen)

InitRd ==
    /\ CANCEL = FALSE
    /\ fs \in {f \in FileSystems : \A p \in PathU : f[p] = "none"}
    /\ empty_dirs \in BOOLEAN
    /\ rd_reader \in BoundedSeq(DataLines, MaxLines)
    /\ rd_fail \in 0..MaxLines
    /\ rd_count = 0
    /\ rd_line = <<>>
    /\ rd_next = NoParse
    /\ RunIdle
    /\ NewIdle
    /\ TokIdle
    /\ CmpIdle
    /\ ApIdle
    /\ MoreIdle

NextRd == RdNext

SpecRd == InitRd /\ [][NextRd]_vars

\* the positions of the bars of a line
Bars(line) == {i \in 1..Len(line) : line[i] = "|"}

\* the position of the last bar of a line that has one
LastBar(line) == CHOOSE i \in Bars(line) : \A j \in Bars(line) : j <= i

\* read_next has read a line and parsed it
LineParsed == rd_count > 0 /\ rd_next.kind \in {"Ok", "FileFormat", "AuditEmptyDir"}

\* C29: the reader splits every data line at its last bar: the record's
\* path is all that stands before it, its digest list all that stands after
\* it, and a line without a bar fails with FileFormat.
C29_SplitAtLastBar ==
    LineParsed =>
        IF Bars(rd_line) = {} THEN rd_next.kind = "FileFormat"
        ELSE LET k == LastBar(rd_line)
                 digests == SubSeq(rd_line, k + 1, Len(rd_line))
             IN  /\ rd_next.kind # "FileFormat"
                 /\ rd_next.path = SubSeq(rd_line, 1, k - 1)
                 /\ rd_next.hash = (IF digests = <<>> THEN OptNone ELSE Some(digests))

(***************************************************************************)
(* exec/outfile.rs: workers appending lines through the GuardedWriter      *)
(***************************************************************************)
\* a Mutex that lets every caller in
mutex_free_always(l) == TRUE

\* Mutex::lock returns when no other thread holds the guard
mutex_free(l) == l = 0

\* the line handle() writes for a record: format!("{hash_data}\n")
LineOf(hd) == fmt(hd) \o <<"\n">>

\* a worker that holds no record
NoOutRec == [path |-> <<>>, hash |-> OptNone]

\* handle() calls running or returned Ok
Appending == {w \in Workers : ap_pc[w] = "write"}

\* handle(): self.lock() on the GuardedWriter, with the record to write
ApLock(w, hd) ==
    /\ ap_pc[w] = "idle"
    /\ Len(ap_handed) + Cardinality(Appending) < MaxLines
    /\ mutex_free(ap_lock)
    /\ ap_lock' = w
    /\ ap_rec' = [ap_rec EXCEPT ![w] = hd]
    /\ ap_left' = [ap_left EXCEPT ![w] = LineOf(hd)]
    /\ ap_pc' = [ap_pc EXCEPT ![w] = "write"]
    /\ UNCHANGED <<ap_buf, ap_file, ap_handed>>
    /\ UNCHANGED notAp

\* BufWriter::write_all without room for the line: flush_buf writes the
\* buffer to the file first; when that fails part of it may be written, the
\* rest stays in the buffer, and handle() returns the error
ApFlush(w, ioErr) ==
    /\ ap_pc[w] = "write"
    /\ ap_left[w] = LineOf(ap_rec[w])
    /\ ap_buf # <<>>
    /\ LET n == IF ioErr THEN Len(ap_buf) \div 2 ELSE Len(ap_buf)
       IN  /\ ap_file' = ap_file \o SubSeq(ap_buf, 1, n)
           /\ ap_buf' = SubSeq(ap_buf, n + 1, Len(ap_buf))
    /\ IF ioErr
       THEN /\ ap_pc' = [ap_pc EXCEPT ![w] = "err"]
            /\ ap_rec' = [ap_rec EXCEPT ![w] = NoOutRec]
            /\ ap_left' = [ap_left EXCEPT ![w] = <<>>]
            /\ ap_lock' = 0
       ELSE UNCHANGED <<ap_pc, ap_rec, ap_left, ap_lock>>
    /\ UNCHANGED ap_handed
    /\ UNCHANGED notAp

\* BufWriter::write_all: the next byte of the line goes to the buffer
ApWrite(w) ==
    /\ ap_pc[w] = "write"
    /\ ap_left[w] # <<>>
    /\ ap_buf' = Append(ap_buf, Head(ap_left[w]))
    /\ ap_left' = [ap_left EXCEPT ![w] = Tail(ap_left[w])]
    /\ UNCHANGED <<ap_lock, ap_rec, ap_pc, ap_file, ap_handed>>
    /\ UNCHANGED notAp

\* handle() returns Ok and the MutexGuard is dropped
ApReturn(w) ==
    /\ ap_pc[w] = "write"
    /\ ap_left[w] = <<>>
    /\ ap_handed' = Append(ap_handed, ap_rec[w])
    /\ ap_rec' = [ap_rec EXCEPT ![w] = NoOutRec]
    /\ ap_pc' = [ap_pc EXCEPT ![w] = "idle"]
    /\ ap_lock' = 0
    /\ UNCHANGED <<ap_left, ap_buf, ap_file>>
    /\ UNCHANGED notAp

\* OutFile::new succeeded: the header is in the BufWriter, the workers start
InitAp ==
    /\ CANCEL = FALSE
    /\ fs \in {f \in FileSystems : \A p \in PathU : f[p] = "none"}
    /\ empty_dirs = FALSE
    /\ ap_lock = 0
    /\ ap_rec = [w \in Workers |-> NoOutRec]
    /\ ap_left = [w \in Workers |-> <<>>]
    /\ ap_pc = [w \in Workers |-> "idle"]
    /\ \E time \in TimeStrings : ap_buf = Header(SubSeq(AlgoList, 1, 1), time)
    /\ ap_file = <<>>
    /\ ap_handed = <<>>
    /\ RunIdle
    /\ NewIdle
    /\ TokIdle
    /\ CmpIdle
    /\ RdIdle
    /\ MoreIdle

NextAp ==
    \/ \E w \in Workers, hd \in OutRecords : ApLock(w, hd)
    \/ \E w \in Workers, e \in BOOLEAN : ApFlush(w, e)
    \/ \E w \in Workers : ApWrite(w)
    \/ \E w \in Workers : ApReturn(w)

SpecAp == InitAp /\ [][NextAp]_vars

\* the part of its line a worker inside handle() has written
WrittenPart(w) ==
    SubSeq(LineOf(ap_rec[w]), 1, Len(LineOf(ap_rec[w])) - Len(ap_left[w]))

\* C30: data lines never interleave.  What stands after the header, in the
\* file and the BufWriter together, is the whole lines of the records whose
\* handle() returned, each once and in the order of the returns, followed
\* only by the written part of the one line a worker is writing.
C30_LinesNeverInterleave ==
    /\ Cardinality(Appending) <= 1
    /\ \A w \in Appending : ap_lock = w
    /\ DataPart(ap_file \o ap_buf) =
          DataBytes(ap_handed)
              \o (IF Appending = {} THEN <<>>
                  ELSE WrittenPart(CHOOSE w \in Workers : w \in Appending))

\* two workers have appended one line each, and part of the buffer has
\* reached the file
C30_Witness ==
    /\ Len(ap_handed) = 2
    /\ ap_handed[1] # ap_handed[2]
    /\ ap_file # <<>>
    /\ ap_buf # <<>>
    /\ Appending = {}


----------------------------------------------------------------------------
(* Termination of the workers and conservation of the queue                *)

\* every worker has left run()
AllReturned == \A w \in Workers : wpc[w] \in {"ok", "err"}

\* C31: every worker eventually returns from run(); every path put on the
\* queue is on it or was popped, once for each time it was put there, so
\* that when the last worker of an uncancelled, error-free run has returned
\* the queue is empty and every path was popped as often as it was enqueued
C31_WorkersReturnQueueDrained ==
    /\ [](\A p \in PathU : pushed[p] = popped[p] + PathCounts(queue)[p])
    /\ [](CleanRun => queue = <<>> /\ popped = pushed)
    /\ <>AllReturned

C31_Witness ==
    /\ CleanRun
    /\ \E p \in PathU : Len(p) > 1 /\ pushed[p] = 1
    /\ \E p, q \in PathU : p # q /\ popped[p] = 1 /\ popped[q] = 1

\* a worker holds a directory it popped whose children are still to be pushed
ExpansionPending(w) ==
    \E v \in Workers \ {w} :
        \/ wpc[v] = "dir" /\ Entries(fs, whd[v].path) # <<>>
        \/ wpc[v] = "pushdir" /\ wdir[v] # <<>>

\* worker w leaves run() because pop_front found the queue empty
ReturnsForLackOfWork(w) ==
    /\ wpc[w] = "pop"
    /\ wpc'[w] = "ok"
    /\ queue = <<>>

\* C39: a worker never returns on an empty queue while another worker has
\* popped a directory whose children are not yet pushed
C39_NoReturnWhilePathsToCome ==
    [][\A w \in Workers : ReturnsForLackOfWork(w) => ~ExpansionPending(w)]_vars

----------------------------------------------------------------------------
(* Termination of the comparator                                           *)

\* the comparator is inside the loop of Checker::search
Searching == cpc \in {"recv", "backlog", "reader"}

\* C32: the loop of search() ends only when every sender is dropped (and
\* the channel is drained) or the cancel flag is set; it never ends while
\* an uncancelled worker can still send; and once the workers are done
\* check() returns, having read the whole manifest unless it was cancelled
\* or a line of the manifest failed to parse
C32_SearchEndsOnCloseOrCancel ==
    /\ [][Searching /\ ~Searching'
            => (~chanOpen /\ source = <<>>) \/ CANCEL']_vars
    /\ [](~Searching /\ ~CANCEL => unsent = {} /\ source = <<>>)
    /\ [](~Searching /\ ~CANCEL /\ result # "error" => reader = <<>>)
    /\ (~chanOpen ~> cpc = "done")

C32_Witness ==
    /\ cpc = "done"
    /\ ~CANCEL
    /\ ~chanOpen
    /\ Len(delivered) >= 2
    /\ manifest # <<>>
    /\ reader = <<>>

----------------------------------------------------------------------------
(* The backlog across one call of search_backlog                           *)

\* how often the record r occurs in the sequence q
Occurrences(q, r) == Cardinality({i \in DOMAIN q : q[i] = r})

SameRecords(p, q) ==
    /\ Len(p) = Len(q)
    /\ \A i \in DOMAIN p : Occurrences(p, p[i]) = Occurrences(q, p[i])

\* q is p without one record, which the live record hd matched or consumed
WithoutOneConsumed(p, q, hd) ==
    \E i \in DOMAIN p :
        /\ compare_paths(fs, p[i].path, hd.path) \in {"Ok", "Extra"}
        /\ SameRecords([j \in 1..(Len(p) - 1) |-> IF j < i THEN p[j] ELSE p[j + 1]], q)

\* Checker::new with the workers about to start, on every file system of the
\* model: up to three live records, so that a worker can still fail while
\* the comparator scans a backlog of two
InitAuditWide ==
    /\ CANCEL = FALSE
    /\ fs \in FileSystems
    /\ empty_dirs \in BOOLEAN
    /\ early \in BOOLEAN
    /\ manifest \in BoundedSeq(ManifestRecords, MaxLines)
    /\ reader = manifest
    /\ source = <<>>
    /\ backlog = <<>>
    /\ audit_err = FALSE
    /\ cur = NoData
    /\ scanLeft = 0
    /\ cpc = "recv"
    /\ result = "none"
    /\ findings = <<>>
    /\ delivered = <<>>
    /\ unsent = LiveRecords(fs, empty_dirs)
    /\ chanOpen = TRUE
    /\ workerErr = FALSE
    /\ consumed = <<>>
    /\ scan0 = <<>>
    /\ EngineIdle
    /\ LibIdle
    /\ PoolIdle
    /\ TextIdle
    /\ UnitIdle

SpecAuditWide == InitAuditWide /\ [][NextAudit]_vars

\* C40: while search_backlog scans, the backlog holds the records it held
\* when the scan began; when it returns (match, finding, cancellation or
\* end of the scan) the backlog holds the same records, less at most the
\* one record the live record matched or consumed
C40_BacklogScanKeepsRecords ==
    /\ [](cpc = "backlog" => SameRecords(scan0, backlog))
    /\ [][cpc = "backlog" /\ cpc' # "backlog"
            => \/ SameRecords(scan0, backlog')
               \/ WithoutOneConsumed(scan0, backlog', cur)]_vars

\* a scan of two records: the first was unrelated and went to the back,
\* the second was consumed by a finding
C40_Witness ==
    /\ cpc = "reader"
    /\ scanLeft = 0
    /\ Len(scan0) = 2
    /\ backlog = <<scan0[1]>>
    /\ findings # <<>>

\* a scan that stopped early on cancellation with its records in place
C40_WitnessCancelled ==
    /\ cpc = "reader"
    /\ CANCEL
    /\ scanLeft = 1
    /\ Len(scan0) = 2
    /\ SameRecords(scan0, backlog)

(***************************************************************************)
(* exec/streader.rs, exec/mtreader.rs: the reader handles of the workers   *)
(***************************************************************************)
\* what a handle did; by 0 is the construction of the reader
Event(by, kind, p) == [by |-> by, kind |-> kind, path |-> p]

\* push_dir(&path, &mut paths): the children of the directory go to the
\* back of the FIFO; true when the directory is empty
reader_push_dir(paths, f, d) ==
    [paths |-> paths \o Entries(f, d), is_empty |-> Entries(f, d) = <<>>]

\* a reader slot that keeps its file after end of file
reader_take_keep(open) == open

\* Option::take on the reader slot: the slot is left None
reader_take(open) == <<>>

\* the handle leaves try_read: the MutexGuard is dropped
XrReturn(h, pc) ==
    /\ x_lock' = 0
    /\ x_pc' = [x_pc EXCEPT ![h] = pc]

\* reader.read(&mut self.buf) on the open file of handle h; the lock is
\* left to the caller
XrReadFile(h, ioErr, pc) ==
    /\ CANCEL' = cancel_on_err(CANCEL, ioErr)
    /\ IF ioErr
       THEN /\ x_pc' = [x_pc EXCEPT ![h] = "err"]
            /\ UNCHANGED <<x_open, x_left, x_events>>
       ELSE IF x_left[h] = 0
       THEN /\ x_open' = [x_open EXCEPT ![h] = reader_take(x_open[h])]
            /\ x_events' = Append(x_events, Event(h, "FileDone", x_open[h]))
            /\ x_pc' = [x_pc EXCEPT ![h] = pc]
            /\ UNCHANGED x_left
       ELSE /\ x_left' = [x_left EXCEPT ![h] = x_left[h] - 1]
            /\ x_events' = Append(x_events, Event(h, "OpenFile", x_open[h]))
            /\ x_pc' = [x_pc EXCEPT ![h] = pc]
            /\ UNCHANGED x_open

\* STReaderHandle::try_read: self.inner.lock()
STLock(h) ==
    /\ x_kind = "st"
    /\ x_pc[h] = "call"
    /\ mutex_free(x_lock)
    /\ x_lock' = h
    /\ x_pc' = [x_pc EXCEPT ![h] = "locked"]
    /\ UNCHANGED <<CANCEL, fs, x_kind, x_paths, x_open, x_left, x_events>>
    /\ UNCHANGED notXr

\* STReaderHandle::try_read with a reader in its slot: one read, under the
\* lock, and the return
STRead(h, ioErr) ==
    /\ x_kind = "st"
    /\ x_pc[h] = "locked"
    /\ x_open[h] # <<>>
    /\ XrReadFile(h, ioErr, "data")
    /\ x_lock' = 0
    /\ UNCHANGED <<fs, x_kind, x_paths>>
    /\ UNCHANGED notXr

\* STReaderHandle::try_read with an empty slot: one turn of the loop of
\* get_new_reader, under the lock
STNew(h, ioErr) ==
    /\ x_kind = "st"
    /\ x_pc[h] = "locked"
    /\ x_open[h] = <<>>
    /\ IF x_paths = <<>>
       THEN /\ ~ioErr
            /\ XrReturn(h, "none")
            /\ UNCHANGED <<CANCEL, x_paths, x_open, x_left, x_events>>
       ELSE LET pf == pop_front(x_paths)
                pd == reader_push_dir(pf.rest, fs, pf.path)
                popped_ev == Append(x_events, Event(h, "Pop", pf.path))
            IN  /\ CANCEL' = cancel_on_err(CANCEL, ioErr)
                /\ IF ioErr
                   THEN /\ XrReturn(h, "err")
                        /\ x_paths' = pf.rest
                        /\ x_events' = popped_ev
                        /\ UNCHANGED <<x_open, x_left>>
                   ELSE IF is_dir(fs, pf.path)
                   THEN /\ x_paths' = pd.paths
                        /\ UNCHANGED <<x_open, x_left>>
                        /\ IF pd.is_empty
                           THEN /\ x_events' =
                                    Append(popped_ev, Event(h, "EmptyDir", pf.path))
                                /\ XrReturn(h, "data")
                           ELSE /\ x_events' = popped_ev \o
                                    [k \in 1..Len(Entries(fs, pf.path)) |->
                                        Event(h, "Push", Entries(fs, pf.path)[k])]
                                /\ UNCHANGED <<x_lock, x_pc>>
                   ELSE /\ x_paths' = pf.rest
                        /\ x_open' = [x_open EXCEPT ![h] = pf.path]
                        /\ x_left' = [x_left EXCEPT ![h] = FileChunks(pf.path)]
                        /\ x_events' = Append(popped_ev, Event(h, "Open", pf.path))
                        /\ UNCHANGED <<x_lock, x_pc>>
    /\ UNCHANGED <<fs, x_kind>>
    /\ UNCHANGED notXr

\* MTReaderHandle::try_read with a reader of its own: one read, and the
\* return; the queue is not locked
MTRead(h, ioErr) ==
    /\ x_kind = "mt"
    /\ x_pc[h] = "call"
    /\ x_open[h] # <<>>
    /\ XrReadFile(h, ioErr, "data")
    /\ UNCHANGED <<fs, x_kind, x_paths, x_lock>>
    /\ UNCHANGED notXr

\* MTReaderHandle::try_read without a reader: self.queue.lock()
MTLock(h) ==
    /\ x_kind = "mt"
    /\ x_pc[h] = "call"
    /\ x_open[h] = <<>>
    /\ mutex_free(x_lock)
    /\ x_lock' = h
    /\ x_pc' = [x_pc EXCEPT ![h] = "locked"]
    /\ UNCHANGED <<CANCEL, fs, x_kind, x_paths, x_open, x_left, x_events>>
    /\ UNCHANGED notXr

\* MTReaderHandle::try_read without a reader: new_reader and push_dir under
\* the lock of the queue; the guard is dropped on `continue` and on return
MTNew(h, ioErr) ==
    /\ x_kind = "mt"
    /\ x_pc[h] = "locked"
    /\ IF x_paths = <<>>
       THEN /\ ~ioErr
            /\ XrReturn(h, "none")
            /\ UNCHANGED <<CANCEL, x_paths, x_open, x_left, x_events>>
       ELSE LET pf == pop_front(x_paths)
                pd == reader_push_dir(pf.rest, fs, pf.path)
                popped_ev == Append(x_events, Event(h, "Pop", pf.path))
            IN  /\ CANCEL' = cancel_on_err(CANCEL, ioErr)
                /\ IF ioErr
                   THEN /\ XrReturn(h, "err")
                        /\ x_paths' = pf.rest
                        /\ x_events' = popped_ev
                        /\ UNCHANGED <<x_open, x_left>>
                   ELSE IF is_dir(fs, pf.path)
                   THEN /\ x_paths' = pd.paths
                        /\ UNCHANGED <<x_open, x_left>>
                        /\ IF pd.is_empty
                           THEN /\ x_events' =
                                    Append(popped_ev, Event(h, "EmptyDir", pf.path))
                                /\ XrReturn(h, "data")
                           ELSE /\ x_events' = popped_ev \o
                                    [k \in 1..Len(Entries(fs, pf.path)) |->
                                        Event(h, "Push", Entries(fs, pf.path)[k])]
                                /\ XrReturn(h, "call")
                   ELSE /\ x_paths' = pf.rest
                        /\ x_open' = [x_open EXCEPT ![h] = pf.path]
                        /\ x_left' = [x_left EXCEPT ![h] = FileChunks(pf.path)]
                        /\ x_events' = Append(popped_ev, Event(h, "Open", pf.path))
                        /\ XrReturn(h, "call")
    /\ UNCHANGED <<fs, x_kind>>
    /\ UNCHANGED notXr

\* the worker works on the ReadData its handle returned (it hashes the
\* chunk, or hands the record on) and calls try_read again
XrProcess(h) ==
    /\ x_pc[h] = "data"
    /\ x_pc' = [x_pc EXCEPT ![h] = "call"]
    /\ UNCHANGED <<CANCEL, fs, x_kind, x_paths, x_lock, x_open, x_left, x_events>>
    /\ UNCHANGED notXr

\* STReader::new / MTReader::new on the paths of a drive group, and a
\* handle for each worker
InitXr(kind) ==
    /\ CANCEL = FALSE
    /\ fs \in FileSystems
    /\ empty_dirs = FALSE
    /\ x_kind = kind
    /\ x_paths \in {sd \in BoundedSeq({p \in SeedPaths : fs[p] # "none"}, MaxSeeds) :
                        Len(sd) >= 1 /\ Distinct(sd)}
    /\ x_lock = 0
    /\ x_open = [h \in Workers |-> <<>>]
    /\ x_left = [h \in Workers |-> 0]
    /\ x_pc = [h \in Workers |-> "call"]
    /\ x_events = [k \in 1..Len(x_paths) |-> Event(0, "Push", x_paths[k])]
    /\ RunIdle
    /\ NewIdle
    /\ TokIdle
    /\ CmpIdle
    /\ RdIdle
    /\ ApIdle
    /\ DrvIdle

InitST == InitXr("st")

NextST ==
    \/ \E h \in Workers : STLock(h)
    \/ \E h \in Workers, e \in BOOLEAN : STRead(h, e)
    \/ \E h \in Workers, e \in BOOLEAN : STNew(h, e)
    \/ \E h \in Workers : XrProcess(h)

SpecST == InitST /\ [][NextST]_vars

InitMT == InitXr("mt")

NextMT ==
    \/ \E h \in Workers : MTLock(h)
    \/ \E h \in Workers, e \in BOOLEAN : MTRead(h, e)
    \/ \E h \in Workers, e \in BOOLEAN : MTNew(h, e)
    \/ \E h \in Workers : XrProcess(h)

SpecMT == InitMT /\ [][NextMT]_vars

----------------------------------------------------------------------------
(* Properties of the reader handles                                        *)

\* the handles inside the critical section of the reader
Locked == {h \in Workers : x_pc[h] = "locked"}

\* what the step added to the events
NewEvents == SubSeq(x_events', Len(x_events) + 1, Len(x_events'))

\* the step touched a file or the FIFO of paths
TouchesFiles ==
    x_events' # x_events \/ x_paths' # x_paths \/ x_open' # x_open \/ x_left' # x_left

\* C33: with the STReader at most one handle is inside the reader at any
\* time; every open, every read and every change of the FIFO of paths is a
\* step of the handle that holds the lock and touches the slot of no other
\* handle; and a handle that works on the data it pulled holds no lock
C33_ReadsUnderSingleLock ==
    /\ [](Cardinality(Locked) <= 1)
    /\ [](\A h \in Workers : x_pc[h] = "locked" <=> x_lock = h)
    /\ [][TouchesFiles =>
            /\ x_lock \in Workers
            /\ x_pc[x_lock] = "locked"
            /\ \A k \in DOMAIN NewEvents : NewEvents[k].by = x_lock
            /\ \A h \in Workers \ {x_lock} :
                   x_open'[h] = x_open[h] /\ x_left'[h] = x_left[h]]_vars
    /\ [](\A h \in Workers : x_pc[h] = "data" => x_lock # h)

\* one handle hashes a chunk of its file while the other, holding the
\* lock, is about to read from a file of its own
C33_Witness ==
    /\ x_kind = "st"
    /\ \E h, g \in Workers :
        /\ x_pc[h] = "data"
        /\ x_open[h] # <<>>
        /\ x_events[Len(x_events)] = Event(h, "OpenFile", x_open[h])
        /\ x_pc[g] = "locked"
        /\ x_open[g] # <<>>

\* the paths of the events of one kind, in order
EventPaths(kind) ==
    LET IsKind(e) == e.kind = kind
        ev == SelectSeq(x_events, IsKind)
    IN  [k \in 1..Len(ev) |-> ev[k].path]

\* how often handle h did kind on path p
EventCount(h, kind, p) ==
    Cardinality({k \in DOMAIN x_events : x_events[k] = Event(h, kind, p)})

\* C34: with the MTReader every path put on the FIFO is popped once, by the
\* handle that holds the queue lock and has no file open; a handle's file
\* changes only from none to the file it opened and back to none with its
\* FileDone; a read of file bytes is a step of a handle that does not hold
\* the queue lock; and every file a handle opened has given one FileDone
\* once it is closed, and none before
C34_OneClaimOneFileDone ==
    /\ [](EventPaths("Push") = EventPaths("Pop") \o x_paths)
    /\ [][\A k \in DOMAIN NewEvents :
            LET e == NewEvents[k]
            IN  /\ e.kind \in {"Pop", "Open", "Push", "EmptyDir"}
                    => x_lock = e.by /\ x_open[e.by] = <<>>
                /\ e.kind \in {"OpenFile", "FileDone"}
                    => x_lock # e.by /\ x_open[e.by] = e.path]_vars
    /\ [][\A h \in Workers : x_open'[h] # x_open[h] =>
            \/ x_open[h] = <<>> /\ NewEvents[Len(NewEvents)] = Event(h, "Open", x_open'[h])
            \/ x_open'[h] = <<>> /\ NewEvents = <<Event(h, "FileDone", x_open[h])>>]_vars
    /\ [](\A h \in Workers : \A p \in PathU :
            EventCount(h, "Open", p) =
                EventCount(h, "FileDone", p) + (IF x_open[h] = p THEN 1 ELSE 0))

\* both handles have a file open and have read a chunk of it, and both
\* files were then read to their end
C34_Witness ==
    /\ x_kind = "mt"
    /\ \A h \in Workers : x_pc[h] = "none"
    /\ \E k \in DOMAIN x_events : \E j \in DOMAIN x_events :
        /\ k < j
        /\ j + 1 \in DOMAIN x_events
        /\ x_events[k].kind = "Open"
        /\ x_events[j].kind = "OpenFile"
        /\ x_events[j + 1].kind = "OpenFile"
        /\ x_events[j].by # x_events[j + 1].by
    /\ Len(EventPaths("FileDone")) >= 2

----------------------------------------------------------------------------
(* The size of the pool of create_hashes                                   *)

\* the threads that hold a path: the calling thread and the spawned ones
Hashing == {t \in Threads : tpc[t] \in {"check", "dir", "pushdir", "open", "read"}}

\* C35: for every max_threads, 0 and 1 included, create_hashes spawns at
\* most max_threads threads, at most max_threads threads (the calling one
\* counted) hold a path at the same time, and `max_threads - 1` neither
\* panics nor wraps
C35_PoolWithinMaxThreads ==
    /\ tpc[1] # "panic"
    /\ spawn_limit(max_threads) < 255
    /\ handles <= max_threads
    /\ Cardinality(Hashing) <= max_threads

(***************************************************************************)
(* path.rs: the drive classifier                                           *)
(***************************************************************************)
\* the orders in which a hash map can hand out the elements of S
Orders(S) ==
    {f \in [1..Cardinality(S) -> S] : \A a, b \in 1..Cardinality(S) : f[a] = f[b] => a = b}

\* an occupied entry that is overwritten with the new index
entry_push_replace(entry, index) == DriveEntry(entry.kind, <<index>>)

\* Entry::Occupied: list.push(*index)
entry_push(entry, index) == DriveEntry(entry.kind, Append(entry.list, index))

\* is_rotational read "1" or "0": the new entry of a vacant device
entry_new(rot, index) == DriveEntry(IF rot = "1" THEN "Hdd" ELSE "Ssd", <<index>>)

\* Err((paths.into_values().collect(), err)): every path, in the order of
\* the hash map
DrvFail(ord) ==
    /\ d_res' = DriveResult(FALSE, <<>>, [k \in 1..Len(d_in) |-> d_in[ord[k]]])
    /\ d_pc' = "done"
    /\ UNCHANGED d_map

\* one turn of `for (index, path) in paths.iter()`: the hash map hands out
\* any index not yet visited; is_rotational panics on a content other than
\* 1 or 0
DrvVisit(i, ord) ==
    /\ d_pc = "loop"
    /\ i \in d_left
    /\ d_left' = d_left \ {i}
    /\ IF d_dev[i] = "fail"
       THEN DrvFail(ord)
       ELSE IF d_map[d_dev[i]].kind # "Vacant"
       THEN /\ d_map' = [d_map EXCEPT ![d_dev[i]] = entry_push(@, i)]
            /\ UNCHANGED <<d_res, d_pc>>
       ELSE IF d_rot[d_dev[i]] \in {"1", "0"}
       THEN /\ d_map' = [d_map EXCEPT ![d_dev[i]] = entry_new(d_rot[d_dev[i]], i)]
            /\ UNCHANGED <<d_res, d_pc>>
       ELSE IF d_rot[d_dev[i]] = "err"
       THEN DrvFail(ord)
       ELSE /\ d_pc' = "panic"
            /\ UNCHANGED <<d_res, d_map>>
    /\ UNCHANGED <<d_in, d_dev, d_rot>>
    /\ UNCHANGED notDrv

\* the devices index_map holds a group for
Seen == {v \in Devices : d_map[v].kind # "Vacant"}

\* index_map.into_values() mapped to the paths: the groups in the order of
\* the hash map, each index replaced by paths.remove(&index)
DrvCollect(gord) ==
    /\ d_pc = "loop"
    /\ d_left = {}
    /\ d_res' = DriveResult(TRUE,
                    [g \in 1..Cardinality(Seen) |->
                        PathList(d_map[gord[g]].kind,
                                 [k \in 1..Len(d_map[gord[g]].list) |->
                                     d_in[d_map[gord[g]].list[k]]])],
                    <<>>)
    /\ d_pc' = "done"
    /\ UNCHANGED <<d_in, d_dev, d_rot, d_left, d_map>>
    /\ UNCHANGED notDrv

\* path_on_fast_drive called on a list of paths
InitDrv ==
    /\ CANCEL = FALSE
    /\ fs \in {f \in FileSystems : \A p \in PathU : f[p] = "none"}
    /\ empty_dirs = FALSE
    /\ d_in \in {sd \in BoundedSeq(SeedPaths, MaxPaths) : Len(sd) >= 1 /\ Distinct(sd)}
    /\ d_dev \in [1..Len(d_in) -> Devices \cup {"fail"}]
    /\ d_rot \in [Devices -> {"1", "0", "err", "bad"}]
    /\ d_left = 1..Len(d_in)
    /\ d_map = [v \in Devices |-> DriveEntry("Vacant", <<>>)]
    /\ d_res = DriveResult(FALSE, <<>>, <<>>)
    /\ d_pc = "loop"
    /\ RunIdle
    /\ NewIdle
    /\ TokIdle
    /\ CmpIdle
    /\ RdIdle
    /\ ApIdle
    /\ XrIdle

NextDrv ==
    \/ \E i \in d_left, ord \in Orders(1..Len(d_in)) : DrvVisit(i, ord)
    \/ \E gord \in Orders(Seen) : DrvCollect(gord)

SpecDrv == InitDrv /\ [][NextDrv]_vars

----------------------------------------------------------------------------
(* Properties of the drive classifier                                      *)

\* path_on_fast_drive returned Ok
Classified == d_pc = "done" /\ d_res.ok

\* the places of the result that hold the path p
PlacesOf(p) ==
    {gk \in (DOMAIN d_res.groups) \X (1..MaxPaths) :
        /\ gk[2] \in DOMAIN d_res.groups[gk[1]].paths
        /\ d_res.groups[gk[1]].paths[gk[2]] = p}

\* the place of path p in the submitted list, and the group that holds it
IndexOf(p) == CHOOSE i \in DOMAIN d_in : d_in[i] = p

GroupOf(p) == CHOOSE g \in DOMAIN d_res.groups : \E gk \in PlacesOf(p) : gk[1] = g

\* the device of a group: the device of its first path
DeviceOf(g) == d_dev[IndexOf(d_res.groups[g].paths[1])]

\* C36: on success every submitted path is at exactly one place of the
\* result and the result holds nothing else, no group is empty, two paths
\* share a group iff find_volume_name gave them the same device, and a
\* group is Hdd iff the rotational file of its device reads 1
C36_GroupsPartitionByDevice ==
    Classified =>
        /\ \A i \in DOMAIN d_in : Cardinality(PlacesOf(d_in[i])) = 1
        /\ \A g \in DOMAIN d_res.groups :
            /\ d_res.groups[g].paths # <<>>
            /\ \A k \in DOMAIN d_res.groups[g].paths :
                   d_res.groups[g].paths[k] \in Range(d_in)
            /\ d_res.groups[g].kind = "Hdd" <=> d_rot[DeviceOf(g)] = "1"
        /\ \A i, j \in DOMAIN d_in :
               GroupOf(d_in[i]) = GroupOf(d_in[j]) <=> d_dev[i] = d_dev[j]

\* three paths on two drives, one of them rotational
C36_Witness ==
    /\ Classified
    /\ Len(d_in) = 3
    /\ Len(d_res.groups) = 2
    /\ \E g, h \in DOMAIN d_res.groups :
           d_res.groups[g].kind = "Hdd" /\ d_res.groups[h].kind = "Ssd"

\* C37: the groups come in the order in which their devices were first
\* seen in the submitted list, and the paths of a group are in the order
\* in which they were submitted
C37_GroupsInSubmissionOrder ==
    Classified =>
        /\ \A g \in DOMAIN d_res.groups :
               \A k, m \in DOMAIN d_res.groups[g].paths :
                   k < m => IndexOf(d_res.groups[g].paths[k]) <
                            IndexOf(d_res.groups[g].paths[m])
        /\ \A g, h \in DOMAIN d_res.groups :
               g < h => IndexOf(d_res.groups[g].paths[1]) <
                        IndexOf(d_res.groups[h].paths[1])

\* the paths the caller gets back, in groups or with the error
Returned(p) ==
    Cardinality(PlacesOf(p)) + Cardinality({k \in DOMAIN d_res.paths : d_res.paths[k] = p})

\* C38: the classifier always returns, with every submitted path exactly
\* once; and when every device name was found it returns groups, those of
\* a device whose rotational query failed tagged Ssd (FAST), the others by
\* what their query gave
C38_RotationalFailureIsFast ==
    /\ d_pc # "panic"
    /\ d_pc = "done" => \A i \in DOMAIN d_in : Returned(d_in[i]) = 1
    /\ (d_pc = "done" /\ \A i \in DOMAIN d_in : d_dev[i] # "fail") =>
        /\ d_res.ok
        /\ \A g \in DOMAIN d_res.groups :
               d_res.groups[g].kind = (IF d_rot[DeviceOf(g)] = "1" THEN "Hdd" ELSE "Ssd")

====
